---------------------------- MODULE Spec2Model ----------------------------
(***************************************************************************)
(* NairaRollsMultisig.sol as a state machine.                              *)
(*                                                                         *)
(* The contract storage is the VARIABLES below.  Every external function   *)
(* is a pure operator f(S, ...) from a storage record S to a result        *)
(* [err, st, ret]: err is the revert reason (OK when the call returns),    *)
(* st the storage the call leaves and ret the value returned.  A reverted  *)
(* call leaves the storage it was given (EVM revert).  The actions apply   *)
(* these operators to the current storage; a reverted call is a step that  *)
(* changes nothing.                                                        *)
(*                                                                         *)
(* The contract's ether is not tracked: whether it holds the value a       *)
(* forwarded call sends is an input of the step (funded).  The cNGN token  *)
(* is a plain ERC20 ledger with allowances granted.                        *)
(*                                                                         *)
(* executeTransaction forwards a call.  When the target is the contract    *)
(* itself the call is dispatched on the payload inside the same step.      *)
(* When the target is another contract, the step ends with the call in     *)
(* flight (frame): the callee may call back into the contract, and then    *)
(* returns with success or failure.                                        *)
(***************************************************************************)
EXTENDS Integers, Sequences, FiniteSets, TLC

(***************************************************************************)
(* Bounds of the model.                                                    *)
(***************************************************************************)
MaxTx == 1          \* submissions are explored while nonce < MaxTx
MaxSlack == 1       \* clock values explored: 0 and TRANSACTION_EXPIRY + k, k <= MaxSlack
InitialFunds == 2   \* cNGN held by the depositor "x" at construction
MaxGovTx == 2       \* submissions explored by SpecGov
MaxPauseTx == 2     \* submissions explored by SpecPause
MaxReentryTx == 2   \* submissions explored by SpecReentry

(***************************************************************************)
(* Addresses.                                                              *)
(***************************************************************************)
Null == "0x0"                       \* address(0)
This == "this"                      \* address(this)
Ext == "ext"                        \* some other contract
EOA == {"x", "y", "z", "w"}         \* externally owned accounts
Addr == EOA \cup {Ext, This, Null}

(***************************************************************************)
(* Program constants.                                                      *)
(***************************************************************************)
MAX_BATCH_SIZE == 100
TRANSACTION_EXPIRY == 30 * 86400    \* 30 days, in seconds

NOT_ENTERED == "NOT_ENTERED"
ENTERED == "ENTERED"

OK == "OK"
Return(st, r) == [err |-> OK, st |-> st, ret |-> r]     \* the call returns r
Revert(e, st) == [err |-> e, st |-> st, ret |-> 0]      \* the call reverts: storage as before it

VARIABLES
    signers,        \* address[] signers (0-based in the code, 1-based here)
    isSigner,       \* mapping(address => bool)
    signerIndex,    \* mapping(address => uint256), the code's 0-based index
    threshold,
    nonce,
    transactions,   \* mapping(uint256 => Transaction)
    paused,
    pauseVotes,
    pauseVoters,    \* mapping(address => bool)
    tokenBalance,   \* cNGN.balanceOf
    status,         \* ReentrancyGuard._status
    now,            \* block.timestamp
    frame           \* the forwarded call in flight, or NoFrame

vars == <<signers, isSigner, signerIndex, threshold, nonce, transactions,
          paused, pauseVotes, pauseVoters, tokenBalance, status, now, frame>>

\* The contract storage (and the token ledger) as one record.
Storage ==
    [signers |-> signers, isSigner |-> isSigner, signerIndex |-> signerIndex,
     threshold |-> threshold, nonce |-> nonce, transactions |-> transactions,
     paused |-> paused, pauseVotes |-> pauseVotes, pauseVoters |-> pauseVoters,
     tokenBalance |-> tokenBalance, status |-> status]

\* A storage slot of mapping(uint256 => Transaction) that was never written.
EmptyTransaction ==
    [target |-> Null, value |-> 0, data |-> <<>>, executed |-> FALSE,
     cancelled |-> FALSE, approvalCount |-> 0, submittedAt |-> 0,
     expiresAt |-> 0, approvals |-> [a \in Addr |-> FALSE]]

\* the slots of mapping(uint256 => Transaction) the model holds
TxIds == 0..(IF MaxTx > MaxGovTx THEN MaxTx ELSE MaxGovTx)

NoFrame == [active |-> FALSE]

(***************************************************************************)
(* ABI encoding of the payloads (bytes as a sequence of words: the         *)
(* selector, then the arguments' head and tail).                           *)
(***************************************************************************)
WORD == 32

\* abi.encodeWithSelector(selector, args...) for static arguments
encodeWithSelector(selector, args) == <<selector>> \o args

\* abi.encodeWithSelector(this.executeBatchTransfer.selector, recipients, amounts):
\* two offsets in the head, each array as its length followed by its elements
_encodeBatchTransfer(recipients, amounts) ==
    <<"executeBatchTransfer", 2 * WORD, (3 + Len(recipients)) * WORD>>
        \o <<Len(recipients)>> \o recipients
        \o <<Len(amounts)>> \o amounts

selectorOf(data) == data[1]
argsOf(data) == SubSeq(data, 2, Len(data))

\* abi.decode of the dynamic array whose offset is the head word h of args
decodeArray(args, h) ==
    LET at == args[h] \div WORD
        n == args[at + 1]
    IN  SubSeq(args, at + 2, at + 1 + n)

(***************************************************************************)
(* The cNGN token (an ERC20): transfer of amount from one holder to        *)
(* another; reverts when the holder's balance is too small.                *)
(***************************************************************************)
tokenTransfer(S, from, to, amount) ==
    IF S.tokenBalance[from] < amount
    THEN Revert("ERC20InsufficientBalance", S)
    ELSE LET b1 == [S.tokenBalance EXCEPT ![from] = @ - amount]
             b2 == [b1 EXCEPT ![to] = @ + amount]
         IN  Return([S EXCEPT !.tokenBalance = b2], TRUE)

(***************************************************************************)
(* Internal helpers.                                                       *)
(***************************************************************************)
_transactionExists(S, txId) == txId < S.nonce

_createTransaction(S, target, value, data, t) ==
    LET txId == S.nonce
        txn == [S.transactions[txId] EXCEPT
                   !.target = target, !.value = value, !.data = data,
                   !.executed = FALSE, !.approvalCount = 0,
                   !.submittedAt = t, !.expiresAt = t + TRANSACTION_EXPIRY]
    IN  Return([S EXCEPT !.nonce = @ + 1, !.transactions[txId] = txn], txId)

\* the approval executes the transaction as soon as the quorum is reached
approveAndAutoExecute(S, sender, txId) ==
    IF S.transactions[txId].approvals[sender]
    THEN Revert("NRM: Already approved", S)
    ELSE Return([S EXCEPT !.transactions[txId].approvals[sender] = TRUE,
                          !.transactions[txId].approvalCount = @ + 1,
                          !.transactions[txId].executed =
                              (S.transactions[txId].approvalCount + 1 >= S.threshold)],
                txId)

\* an approval that does not look at the caller's ledger entry
approveNoDuplicateCheck(S, sender, txId) ==
    Return([S EXCEPT !.transactions[txId].approvals[sender] = TRUE,
                     !.transactions[txId].approvalCount = @ + 1], txId)

_approveTransaction(S, sender, txId) ==
    IF S.transactions[txId].approvals[sender]
    THEN Revert("NRM: Already approved", S)
    ELSE Return([S EXCEPT !.transactions[txId].approvals[sender] = TRUE,
                          !.transactions[txId].approvalCount = @ + 1], txId)

\* a reset that zeroes the counter and leaves the vote flags standing
resetPauseVotesCountOnly(S) == [S EXCEPT !.pauseVotes = 0]

_resetPauseVotes(S) ==
    [S EXCEPT !.pauseVoters =
                  [a \in Addr |->
                      IF \E i \in 1..Len(S.signers) : S.signers[i] = a
                      THEN FALSE ELSE S.pauseVoters[a]],
              !.pauseVotes = 0]

\* validTransaction that looks at cancelled only
validTransactionIgnoresExecuted(S, txId, t) ==
    IF ~_transactionExists(S, txId) THEN "NRM: Transaction does not exist"
    ELSE IF S.transactions[txId].cancelled THEN "NRM: Transaction finalized"
    ELSE IF ~(t <= S.transactions[txId].expiresAt) THEN "NRM: Transaction expired"
    ELSE OK

\* validTransaction with the expiry test strict: expired from expiresAt on
validTransactionStrictExpiry(S, txId, t) ==
    IF ~_transactionExists(S, txId) THEN "NRM: Transaction does not exist"
    ELSE IF ~(~S.transactions[txId].executed /\ ~S.transactions[txId].cancelled)
         THEN "NRM: Transaction finalized"
    ELSE IF ~(t < S.transactions[txId].expiresAt) THEN "NRM: Transaction expired"
    ELSE OK

\* validTransaction without the expiry test
validTransactionNoExpiry(S, txId, t) ==
    IF ~_transactionExists(S, txId) THEN "NRM: Transaction does not exist"
    ELSE IF ~(~S.transactions[txId].executed /\ ~S.transactions[txId].cancelled)
         THEN "NRM: Transaction finalized"
    ELSE OK

\* modifier validTransaction(txId): the first failing require, or OK
validTransaction(S, txId, t) ==
    IF ~_transactionExists(S, txId) THEN "NRM: Transaction does not exist"
    ELSE IF ~(~S.transactions[txId].executed /\ ~S.transactions[txId].cancelled)
         THEN "NRM: Transaction finalized"
    ELSE IF ~(t <= S.transactions[txId].expiresAt) THEN "NRM: Transaction expired"
    ELSE OK

\* a signer check that lets every caller through
onlySignerOff(S, sender) == OK

\* modifier onlySigner
onlySigner(S, sender) == IF S.isSigner[sender] THEN OK ELSE "NRM: Not authorized signer"

\* modifier notPaused
notPaused(S) == IF ~S.paused THEN OK ELSE "NRM: Contract paused"

\* a latch that lets every call through
nonReentrantOff(S) == OK

\* modifier nonReentrant (ReentrancyGuard._nonReentrantBefore)
nonReentrant(S) == IF S.status = ENTERED THEN "ReentrancyGuardReentrantCall" ELSE OK

\* the caller test left out
onlySelfMissing(sender, msg) == OK

\* require(msg.sender == address(this), ...)
onlySelf(sender, msg) == IF sender = This THEN OK ELSE msg

(***************************************************************************)
(* Deposit and submission.                                                 *)
(***************************************************************************)
deposit(S, sender, amount) ==
    IF nonReentrant(S) # OK THEN Revert(nonReentrant(S), S)
    ELSE IF notPaused(S) # OK THEN Revert(notPaused(S), S)
    ELSE IF ~(amount > 0) THEN Revert("NRM: Invalid deposit amount", S)
    ELSE LET r == tokenTransfer(S, sender, This, amount)     \* safeTransferFrom
         IN  IF r.err # OK THEN Revert(r.err, S) ELSE Return(r.st, 0)

\* a submission that leaves the approval to a later call
submitTransactionNoApprove(S, sender, target, value, data, t) ==
    IF onlySigner(S, sender) # OK THEN Revert(onlySigner(S, sender), S)
    ELSE IF notPaused(S) # OK THEN Revert(notPaused(S), S)
    ELSE IF ~(target # Null) THEN Revert("NRM: Invalid target address", S)
    ELSE IF ~(Len(data) > 0 \/ value > 0) THEN Revert("NRM: Empty transaction", S)
    ELSE LET c == _createTransaction(S, target, value, data, t)
         IN  Return(c.st, c.ret)

submitTransaction(S, sender, target, value, data, t) ==
    IF onlySigner(S, sender) # OK THEN Revert(onlySigner(S, sender), S)
    ELSE IF notPaused(S) # OK THEN Revert(notPaused(S), S)
    ELSE IF ~(target # Null) THEN Revert("NRM: Invalid target address", S)
    ELSE IF ~(Len(data) > 0 \/ value > 0) THEN Revert("NRM: Empty transaction", S)
    ELSE LET c == _createTransaction(S, target, value, data, t)
             a == _approveTransaction(c.st, sender, c.ret)      \* auto-approve by submitter
         IN  IF a.err # OK THEN Revert(a.err, S) ELSE Return(a.st, c.ret)

\* uint256 totalAmount of the validation loop
RECURSIVE SumSeq(_)
SumSeq(q) == IF q = <<>> THEN 0 ELSE Head(q) + SumSeq(Tail(q))

\* the validation loop of submitBatchPayment from position i on: the first failing require
RECURSIVE validateBatch(_, _, _)
validateBatch(recipients, amounts, i) ==
    IF i > Len(recipients) THEN OK
    ELSE IF ~(recipients[i] # Null) THEN "NRM: Invalid recipient"
    ELSE IF ~(amounts[i] > 0) THEN "NRM: Invalid amount"
    ELSE validateBatch(recipients, amounts, i + 1)

\* a batch submission that does not look at the pooled balance
submitBatchPaymentNoBalanceCheck(S, sender, recipients, amounts, t) ==
    IF onlySigner(S, sender) # OK THEN Revert(onlySigner(S, sender), S)
    ELSE IF notPaused(S) # OK THEN Revert(notPaused(S), S)
    ELSE IF ~(Len(recipients) = Len(amounts)) THEN Revert("NRM: Array length mismatch", S)
    ELSE IF ~(Len(recipients) > 0 /\ Len(recipients) <= MAX_BATCH_SIZE)
         THEN Revert("NRM: Invalid batch size", S)
    ELSE IF validateBatch(recipients, amounts, 1) # OK
         THEN Revert(validateBatch(recipients, amounts, 1), S)
    ELSE LET data == _encodeBatchTransfer(recipients, amounts)
             c == _createTransaction(S, This, 0, data, t)
             a == _approveTransaction(c.st, sender, c.ret)
         IN  IF a.err # OK THEN Revert(a.err, S) ELSE Return(a.st, c.ret)

submitBatchPayment(S, sender, recipients, amounts, t) ==
    IF onlySigner(S, sender) # OK THEN Revert(onlySigner(S, sender), S)
    ELSE IF notPaused(S) # OK THEN Revert(notPaused(S), S)
    ELSE IF ~(Len(recipients) = Len(amounts)) THEN Revert("NRM: Array length mismatch", S)
    ELSE IF ~(Len(recipients) > 0 /\ Len(recipients) <= MAX_BATCH_SIZE)
         THEN Revert("NRM: Invalid batch size", S)
    ELSE IF validateBatch(recipients, amounts, 1) # OK
         THEN Revert(validateBatch(recipients, amounts, 1), S)
    ELSE IF ~(S.tokenBalance[This] >= SumSeq(amounts))
         THEN Revert("NRM: Insufficient balance", S)
    ELSE LET data == _encodeBatchTransfer(recipients, amounts)
             c == _createTransaction(S, This, 0, data, t)
             a == _approveTransaction(c.st, sender, c.ret)
         IN  IF a.err # OK THEN Revert(a.err, S) ELSE Return(a.st, c.ret)

(***************************************************************************)
(* Approval, revocation, cancellation, expiry.                             *)
(***************************************************************************)
approveTransaction(S, sender, txId, t) ==
    IF onlySigner(S, sender) # OK THEN Revert(onlySigner(S, sender), S)
    ELSE IF notPaused(S) # OK THEN Revert(notPaused(S), S)
    ELSE IF validTransaction(S, txId, t) # OK THEN Revert(validTransaction(S, txId, t), S)
    ELSE LET a == _approveTransaction(S, sender, txId)
         IN  IF a.err # OK THEN Revert(a.err, S) ELSE Return(a.st, 0)

\* a revocation that clears the ledger entry and leaves the counter standing
revokeApprovalKeepsCount(S, sender, txId, t) ==
    IF onlySigner(S, sender) # OK THEN Revert(onlySigner(S, sender), S)
    ELSE IF notPaused(S) # OK THEN Revert(notPaused(S), S)
    ELSE IF validTransaction(S, txId, t) # OK THEN Revert(validTransaction(S, txId, t), S)
    ELSE IF ~S.transactions[txId].approvals[sender]
         THEN Revert("NRM: Not previously approved", S)
    ELSE Return([S EXCEPT !.transactions[txId].approvals[sender] = FALSE], 0)

\* a revocation that does not look at the caller's ledger entry
revokeApprovalNoLedgerCheck(S, sender, txId, t) ==
    IF onlySigner(S, sender) # OK THEN Revert(onlySigner(S, sender), S)
    ELSE IF notPaused(S) # OK THEN Revert(notPaused(S), S)
    ELSE IF validTransaction(S, txId, t) # OK THEN Revert(validTransaction(S, txId, t), S)
    ELSE IF S.transactions[txId].approvalCount = 0
         THEN Revert("Panic(0x11)", S)
    ELSE Return([S EXCEPT !.transactions[txId].approvals[sender] = FALSE,
                          !.transactions[txId].approvalCount = @ - 1], 0)

\* a revocation that withdraws every approval of the transaction
revokeApprovalResets(S, sender, txId, t) ==
    IF onlySigner(S, sender) # OK THEN Revert(onlySigner(S, sender), S)
    ELSE IF notPaused(S) # OK THEN Revert(notPaused(S), S)
    ELSE IF validTransaction(S, txId, t) # OK THEN Revert(validTransaction(S, txId, t), S)
    ELSE IF ~S.transactions[txId].approvals[sender]
         THEN Revert("NRM: Not previously approved", S)
    ELSE Return([S EXCEPT !.transactions[txId].approvals = [a \in Addr |-> FALSE],
                          !.transactions[txId].approvalCount = 0], 0)

revokeApproval(S, sender, txId, t) ==
    IF onlySigner(S, sender) # OK THEN Revert(onlySigner(S, sender), S)
    ELSE IF notPaused(S) # OK THEN Revert(notPaused(S), S)
    ELSE IF validTransaction(S, txId, t) # OK THEN Revert(validTransaction(S, txId, t), S)
    ELSE IF ~S.transactions[txId].approvals[sender]
         THEN Revert("NRM: Not previously approved", S)
    ELSE IF S.transactions[txId].approvalCount = 0
         THEN Revert("Panic(0x11)", S)                  \* checked approvalCount--
    ELSE Return([S EXCEPT !.transactions[txId].approvals[sender] = FALSE,
                          !.transactions[txId].approvalCount = @ - 1], 0)

\* cancelTransaction without the require on executed / cancelled
cancelTransactionNoFinalCheck(S, sender, txId, t) ==
    IF onlySigner(S, sender) # OK THEN Revert(onlySigner(S, sender), S)
    ELSE IF notPaused(S) # OK THEN Revert(notPaused(S), S)
    ELSE IF ~_transactionExists(S, txId) THEN Revert("NRM: Transaction does not exist", S)
    ELSE IF /\ t <= S.transactions[txId].expiresAt
            /\ ~(S.transactions[txId].approvals[sender]
                    /\ S.transactions[txId].approvalCount > 0)
         THEN Revert("NRM: Only submitter can cancel", S)
    ELSE Return([S EXCEPT !.transactions[txId].cancelled = TRUE], 0)

\* a cancellation open to every signer at any time
cancelTransactionAnySigner(S, sender, txId, t) ==
    IF onlySigner(S, sender) # OK THEN Revert(onlySigner(S, sender), S)
    ELSE IF notPaused(S) # OK THEN Revert(notPaused(S), S)
    ELSE IF ~_transactionExists(S, txId) THEN Revert("NRM: Transaction does not exist", S)
    ELSE IF ~(~S.transactions[txId].executed /\ ~S.transactions[txId].cancelled)
         THEN Revert("NRM: Transaction finalized", S)
    ELSE Return([S EXCEPT !.transactions[txId].cancelled = TRUE], 0)

\* a cancellation that deletes the record and keeps the cancelled mark only
cancelTransactionDeletes(S, sender, txId, t) ==
    IF onlySigner(S, sender) # OK THEN Revert(onlySigner(S, sender), S)
    ELSE IF notPaused(S) # OK THEN Revert(notPaused(S), S)
    ELSE IF ~_transactionExists(S, txId) THEN Revert("NRM: Transaction does not exist", S)
    ELSE IF ~(~S.transactions[txId].executed /\ ~S.transactions[txId].cancelled)
         THEN Revert("NRM: Transaction finalized", S)
    ELSE IF /\ t <= S.transactions[txId].expiresAt
            /\ ~(S.transactions[txId].approvals[sender]
                    /\ S.transactions[txId].approvalCount > 0)
         THEN Revert("NRM: Only submitter can cancel", S)
    ELSE Return([S EXCEPT !.transactions[txId] =
                              [EmptyTransaction EXCEPT !.cancelled = TRUE]], 0)

cancelTransaction(S, sender, txId, t) ==
    IF onlySigner(S, sender) # OK THEN Revert(onlySigner(S, sender), S)
    ELSE IF notPaused(S) # OK THEN Revert(notPaused(S), S)
    ELSE IF ~_transactionExists(S, txId) THEN Revert("NRM: Transaction does not exist", S)
    ELSE IF ~(~S.transactions[txId].executed /\ ~S.transactions[txId].cancelled)
         THEN Revert("NRM: Transaction finalized", S)
    ELSE IF /\ t <= S.transactions[txId].expiresAt
            /\ ~(S.transactions[txId].approvals[sender]
                    /\ S.transactions[txId].approvalCount > 0)
         THEN Revert("NRM: Only submitter can cancel", S)
    ELSE Return([S EXCEPT !.transactions[txId].cancelled = TRUE], 0)

\* an expiry that is open from now = expiresAt on
expireTransactionAtExpiry(S, sender, txId, t) ==
    IF ~_transactionExists(S, txId) THEN Revert("NRM: Transaction does not exist", S)
    ELSE IF ~(~S.transactions[txId].executed /\ ~S.transactions[txId].cancelled)
         THEN Revert("NRM: Transaction finalized", S)
    ELSE IF ~(t >= S.transactions[txId].expiresAt) THEN Revert("NRM: Not yet expired", S)
    ELSE Return([S EXCEPT !.transactions[txId].cancelled = TRUE], 0)

\* an expiry that does not look at the executed and cancelled marks
expireTransactionNoFinalCheck(S, sender, txId, t) ==
    IF ~_transactionExists(S, txId) THEN Revert("NRM: Transaction does not exist", S)
    ELSE IF ~(t > S.transactions[txId].expiresAt) THEN Revert("NRM: Not yet expired", S)
    ELSE Return([S EXCEPT !.transactions[txId].cancelled = TRUE], 0)

\* an expiry that is refused while the contract is paused
expireTransactionNotPaused(S, sender, txId, t) ==
    IF notPaused(S) # OK THEN Revert(notPaused(S), S)
    ELSE IF ~_transactionExists(S, txId) THEN Revert("NRM: Transaction does not exist", S)
    ELSE IF ~(~S.transactions[txId].executed /\ ~S.transactions[txId].cancelled)
         THEN Revert("NRM: Transaction finalized", S)
    ELSE IF ~(t > S.transactions[txId].expiresAt) THEN Revert("NRM: Not yet expired", S)
    ELSE Return([S EXCEPT !.transactions[txId].cancelled = TRUE], 0)

expireTransaction(S, sender, txId, t) ==
    IF ~_transactionExists(S, txId) THEN Revert("NRM: Transaction does not exist", S)
    ELSE IF ~(~S.transactions[txId].executed /\ ~S.transactions[txId].cancelled)
         THEN Revert("NRM: Transaction finalized", S)
    ELSE IF ~(t > S.transactions[txId].expiresAt) THEN Revert("NRM: Not yet expired", S)
    ELSE Return([S EXCEPT !.transactions[txId].cancelled = TRUE], 0)

(***************************************************************************)
(* Privileged functions, callable by the contract itself only.             *)
(***************************************************************************)
\* a batch loop that skips a transfer the token refuses and goes on
RECURSIVE batchLoopSkipsFailed(_, _, _, _)
batchLoopSkipsFailed(S, recipients, amounts, i) ==
    IF i > Len(recipients) THEN Return(S, 0)
    ELSE IF ~(recipients[i] # Null) THEN Revert("NRM: Invalid recipient", S)
    ELSE IF ~(amounts[i] > 0) THEN Revert("NRM: Invalid amount", S)
    ELSE LET r == tokenTransfer(S, This, recipients[i], amounts[i])
         IN  IF r.err # OK THEN batchLoopSkipsFailed(S, recipients, amounts, i + 1)
             ELSE batchLoopSkipsFailed(r.st, recipients, amounts, i + 1)

\* the loop of executeBatchTransfer from position i on
RECURSIVE batchLoop(_, _, _, _)
batchLoop(S, recipients, amounts, i) ==
    IF i > Len(recipients) THEN Return(S, 0)
    ELSE IF ~(recipients[i] # Null) THEN Revert("NRM: Invalid recipient", S)
    ELSE IF ~(amounts[i] > 0) THEN Revert("NRM: Invalid amount", S)
    ELSE LET r == tokenTransfer(S, This, recipients[i], amounts[i])   \* safeTransfer
         IN  IF r.err # OK THEN Revert(r.err, S)
             ELSE batchLoop(r.st, recipients, amounts, i + 1)

executeBatchTransfer(S, sender, recipients, amounts) ==
    IF nonReentrant(S) # OK THEN Revert(nonReentrant(S), S)
    ELSE IF onlySelf(sender, "NRM: Only via multisig execution") # OK
         THEN Revert("NRM: Only via multisig execution", S)
    ELSE IF ~(Len(recipients) = Len(amounts)) THEN Revert("NRM: Array length mismatch", S)
    ELSE IF ~(Len(recipients) > 0) THEN Revert("NRM: No recipients provided", S)
    ELSE LET r == batchLoop([S EXCEPT !.status = ENTERED], recipients, amounts, 1)
         IN  IF r.err # OK THEN Revert(r.err, S)
             ELSE Return([r.st EXCEPT !.status = NOT_ENTERED], 0)

addSigner(S, sender, newSigner) ==
    IF onlySelf(sender, "NRM: Only via multisig") # OK THEN Revert("NRM: Only via multisig", S)
    ELSE IF ~(newSigner # Null) THEN Revert("NRM: Invalid signer address", S)
    ELSE IF ~(~S.isSigner[newSigner]) THEN Revert("NRM: Already a signer", S)
    ELSE Return([S EXCEPT !.signers = Append(@, newSigner),
                          !.isSigner[newSigner] = TRUE,
                          !.signerIndex[newSigner] = Len(S.signers)], 0)

\* a removal that leaves the removed signer's pause vote standing
removeSignerKeepsVote(S, sender, signerToRemove) ==
    IF onlySelf(sender, "NRM: Only via multisig") # OK THEN Revert("NRM: Only via multisig", S)
    ELSE IF ~S.isSigner[signerToRemove] THEN Revert("NRM: Not a signer", S)
    ELSE IF ~(Len(S.signers) > 1) THEN Revert("NRM: Cannot remove last signer", S)
    ELSE LET index == S.signerIndex[signerToRemove]
             lastIndex == Len(S.signers) - 1
             lastSigner == S.signers[lastIndex + 1]
             moved == IF index # lastIndex
                      THEN [S EXCEPT !.signers[index + 1] = lastSigner,
                                     !.signerIndex[lastSigner] = index]
                      ELSE S
         IN  Return([moved EXCEPT !.signers = SubSeq(@, 1, Len(@) - 1),
                                  !.isSigner[signerToRemove] = FALSE,
                                  !.signerIndex[signerToRemove] = 0], 0)

\* a removal that moves the last signer into the freed position without
\* updating its index entry
removeSignerStaleIndex(S, sender, signerToRemove) ==
    IF onlySelf(sender, "NRM: Only via multisig") # OK THEN Revert("NRM: Only via multisig", S)
    ELSE IF ~S.isSigner[signerToRemove] THEN Revert("NRM: Not a signer", S)
    ELSE IF ~(Len(S.signers) > 1) THEN Revert("NRM: Cannot remove last signer", S)
    ELSE LET index == S.signerIndex[signerToRemove]
             lastIndex == Len(S.signers) - 1
             lastSigner == S.signers[lastIndex + 1]
             moved == IF index # lastIndex
                      THEN [S EXCEPT !.signers[index + 1] = lastSigner]
                      ELSE S
             popped == [moved EXCEPT !.signers = SubSeq(@, 1, Len(@) - 1),
                                     !.isSigner[signerToRemove] = FALSE,
                                     !.signerIndex[signerToRemove] = 0]
         IN  IF popped.pauseVoters[signerToRemove] /\ popped.pauseVotes = 0
             THEN Revert("Panic(0x11)", S)
             ELSE IF popped.pauseVoters[signerToRemove]
             THEN Return([popped EXCEPT !.pauseVoters[signerToRemove] = FALSE,
                                        !.pauseVotes = @ - 1], 0)
             ELSE Return(popped, 0)

\* a removal that drops the last position whichever signer is named
removeSignerNoSwap(S, sender, signerToRemove) ==
    IF onlySelf(sender, "NRM: Only via multisig") # OK THEN Revert("NRM: Only via multisig", S)
    ELSE IF ~S.isSigner[signerToRemove] THEN Revert("NRM: Not a signer", S)
    ELSE IF ~(Len(S.signers) > 1) THEN Revert("NRM: Cannot remove last signer", S)
    ELSE LET popped == [S EXCEPT !.signers = SubSeq(@, 1, Len(@) - 1),
                                 !.isSigner[signerToRemove] = FALSE,
                                 !.signerIndex[signerToRemove] = 0]
         IN  IF popped.pauseVoters[signerToRemove] /\ popped.pauseVotes = 0
             THEN Revert("Panic(0x11)", S)
             ELSE IF popped.pauseVoters[signerToRemove]
             THEN Return([popped EXCEPT !.pauseVoters[signerToRemove] = FALSE,
                                        !.pauseVotes = @ - 1], 0)
             ELSE Return(popped, 0)

\* a removal that also withdraws the removed signer's approvals
removeSignerCompacts(S, sender, signerToRemove) ==
    IF onlySelf(sender, "NRM: Only via multisig") # OK THEN Revert("NRM: Only via multisig", S)
    ELSE IF ~S.isSigner[signerToRemove] THEN Revert("NRM: Not a signer", S)
    ELSE IF ~(Len(S.signers) > 1) THEN Revert("NRM: Cannot remove last signer", S)
    ELSE LET index == S.signerIndex[signerToRemove]
             lastIndex == Len(S.signers) - 1
             lastSigner == S.signers[lastIndex + 1]
             moved == IF index # lastIndex
                      THEN [S EXCEPT !.signers[index + 1] = lastSigner,
                                     !.signerIndex[lastSigner] = index]
                      ELSE S
             popped == [moved EXCEPT !.signers = SubSeq(@, 1, Len(@) - 1),
                                     !.isSigner[signerToRemove] = FALSE,
                                     !.signerIndex[signerToRemove] = 0]
             voted == S.pauseVoters[signerToRemove]
         IN  Return([popped EXCEPT
                        !.pauseVoters[signerToRemove] = FALSE,
                        !.pauseVotes = IF voted /\ @ > 0 THEN @ - 1 ELSE @,
                        !.transactions =
                            [j \in DOMAIN @ |->
                                IF @[j].approvals[signerToRemove] /\ ~@[j].executed
                                      /\ ~@[j].cancelled /\ @[j].approvalCount > 0
                                THEN [@[j] EXCEPT !.approvals[signerToRemove] = FALSE,
                                                  !.approvalCount = @ - 1]
                                ELSE @[j]]], 0)

removeSigner(S, sender, signerToRemove) ==
    IF onlySelf(sender, "NRM: Only via multisig") # OK THEN Revert("NRM: Only via multisig", S)
    ELSE IF ~S.isSigner[signerToRemove] THEN Revert("NRM: Not a signer", S)
    ELSE IF ~(Len(S.signers) > 1) THEN Revert("NRM: Cannot remove last signer", S)
    ELSE LET index == S.signerIndex[signerToRemove]
             lastIndex == Len(S.signers) - 1
             lastSigner == S.signers[lastIndex + 1]
             \* move the last signer to the removed signer's position
             moved == IF index # lastIndex
                      THEN [S EXCEPT !.signers[index + 1] = lastSigner,
                                     !.signerIndex[lastSigner] = index]
                      ELSE S
             \* signers.pop(); delete isSigner[..]; delete signerIndex[..]
             popped == [moved EXCEPT !.signers = SubSeq(@, 1, Len(@) - 1),
                                     !.isSigner[signerToRemove] = FALSE,
                                     !.signerIndex[signerToRemove] = 0]
         IN  IF popped.pauseVoters[signerToRemove] /\ popped.pauseVotes = 0
             THEN Revert("Panic(0x11)", S)              \* checked pauseVotes--
             ELSE IF popped.pauseVoters[signerToRemove]
             THEN Return([popped EXCEPT !.pauseVoters[signerToRemove] = FALSE,
                                        !.pauseVotes = @ - 1], 0)
             ELSE Return(popped, 0)

\* a threshold change that trusts the value checked at submission
changeThresholdUnchecked(S, sender, newThreshold) ==
    IF onlySelf(sender, "NRM: Only via multisig") # OK THEN Revert("NRM: Only via multisig", S)
    ELSE Return([S EXCEPT !.threshold = newThreshold], 0)

changeThreshold(S, sender, newThreshold) ==
    IF onlySelf(sender, "NRM: Only via multisig") # OK THEN Revert("NRM: Only via multisig", S)
    ELSE IF ~(newThreshold > 0 /\ newThreshold <= Len(S.signers))
         THEN Revert("NRM: Invalid threshold", S)
    ELSE Return([S EXCEPT !.threshold = newThreshold], 0)

executeWithdraw(S, sender, recipient, amount) ==
    IF onlySelf(sender, "NRM: Only via multisig execution") # OK
         THEN Revert("NRM: Only via multisig execution", S)
    ELSE IF ~(recipient # Null) THEN Revert("NRM: Invalid recipient", S)
    ELSE IF ~(amount > 0) THEN Revert("NRM: Invalid amount", S)
    ELSE LET r == tokenTransfer(S, This, recipient, amount)     \* safeTransfer
         IN  IF r.err # OK THEN Revert(r.err, S) ELSE Return(r.st, 0)

(***************************************************************************)
(* Submission of the privileged operations.                                *)
(***************************************************************************)
submitAddSigner(S, sender, newSigner, t) ==
    IF onlySigner(S, sender) # OK THEN Revert(onlySigner(S, sender), S)
    ELSE IF notPaused(S) # OK THEN Revert(notPaused(S), S)
    ELSE IF ~(newSigner # Null) THEN Revert("NRM: Invalid signer address", S)
    ELSE IF ~(~S.isSigner[newSigner]) THEN Revert("NRM: Already a signer", S)
    ELSE submitTransaction(S, sender, This, 0,
                           encodeWithSelector("addSigner", <<newSigner>>), t)

\* a removal proposal accepted without the threshold check
submitRemoveSignerNoThresholdCheck(S, sender, signerToRemove, t) ==
    IF onlySigner(S, sender) # OK THEN Revert(onlySigner(S, sender), S)
    ELSE IF notPaused(S) # OK THEN Revert(notPaused(S), S)
    ELSE IF ~S.isSigner[signerToRemove] THEN Revert("NRM: Not a signer", S)
    ELSE IF ~(Len(S.signers) > 1) THEN Revert("NRM: Cannot remove last signer", S)
    ELSE submitTransaction(S, sender, This, 0,
                           encodeWithSelector("removeSigner", <<signerToRemove>>), t)

submitRemoveSigner(S, sender, signerToRemove, t) ==
    IF onlySigner(S, sender) # OK THEN Revert(onlySigner(S, sender), S)
    ELSE IF notPaused(S) # OK THEN Revert(notPaused(S), S)
    ELSE IF ~S.isSigner[signerToRemove] THEN Revert("NRM: Not a signer", S)
    ELSE IF ~(Len(S.signers) > 1) THEN Revert("NRM: Cannot remove last signer", S)
    ELSE IF ~(Len(S.signers) - 1 >= S.threshold)
         THEN Revert("NRM: Would invalidate threshold", S)
    ELSE submitTransaction(S, sender, This, 0,
                           encodeWithSelector("removeSigner", <<signerToRemove>>), t)

submitChangeThreshold(S, sender, newThreshold, t) ==
    IF onlySigner(S, sender) # OK THEN Revert(onlySigner(S, sender), S)
    ELSE IF notPaused(S) # OK THEN Revert(notPaused(S), S)
    ELSE IF ~(newThreshold > 0 /\ newThreshold <= Len(S.signers))
         THEN Revert("NRM: Invalid threshold", S)
    ELSE IF ~(newThreshold # S.threshold) THEN Revert("NRM: Same threshold", S)
    ELSE submitTransaction(S, sender, This, 0,
                           encodeWithSelector("changeThreshold", <<newThreshold>>), t)

submitWithdraw(S, sender, recipient, amount, t) ==
    IF onlySigner(S, sender) # OK THEN Revert(onlySigner(S, sender), S)
    ELSE IF notPaused(S) # OK THEN Revert(notPaused(S), S)
    ELSE IF ~(recipient # Null) THEN Revert("NRM: Invalid recipient", S)
    ELSE IF ~(amount > 0) THEN Revert("NRM: Invalid amount", S)
    ELSE IF ~(S.tokenBalance[This] >= amount) THEN Revert("NRM: Insufficient balance", S)
    ELSE submitTransaction(S, sender, This, 0,
                           encodeWithSelector("executeWithdraw", <<recipient, amount>>), t)

(***************************************************************************)
(* Emergency pause.                                                        *)
(***************************************************************************)
\* a pause majority taken from the approval threshold
requiredVotesIsThreshold(S) == S.threshold

requiredVotes(S) == (Len(S.signers) \div 2) + 1

votePause(S, sender) ==
    IF onlySigner(S, sender) # OK THEN Revert(onlySigner(S, sender), S)
    ELSE IF ~(~S.paused) THEN Revert("NRM: Already paused", S)
    ELSE IF ~(~S.pauseVoters[sender]) THEN Revert("NRM: Already voted to pause", S)
    ELSE LET v == [S EXCEPT !.pauseVoters[sender] = TRUE, !.pauseVotes = @ + 1]
         IN  IF v.pauseVotes >= requiredVotes(v)
             THEN Return([v EXCEPT !.paused = TRUE], 0)
             ELSE Return(v, 0)

voteUnpause(S, sender) ==
    IF onlySigner(S, sender) # OK THEN Revert(onlySigner(S, sender), S)
    ELSE IF ~S.paused THEN Revert("NRM: Not paused", S)
    ELSE IF ~S.pauseVoters[sender] THEN Revert("NRM: Must have voted to pause first", S)
    ELSE IF S.pauseVotes = 0 THEN Revert("Panic(0x11)", S)      \* checked pauseVotes--
    ELSE LET v == [S EXCEPT !.pauseVoters[sender] = FALSE, !.pauseVotes = @ - 1]
         IN  IF v.pauseVotes < requiredVotes(v)
             THEN Return(_resetPauseVotes([v EXCEPT !.paused = FALSE]), 0)
             ELSE Return(v, 0)

(***************************************************************************)
(* View functions: they return a value and leave the storage as it is.     *)
(***************************************************************************)
getSigners(S) == Return(S, S.signers)

getThreshold(S) == Return(S, S.threshold)

getBalance(S) == Return(S, S.tokenBalance[This])

getTransactionDetails(S, txId) ==
    IF ~_transactionExists(S, txId) THEN Revert("NRM: Transaction does not exist", S)
    ELSE LET txn == S.transactions[txId]
         IN  Return(S, <<txn.target, txn.value, txn.data, txn.executed, txn.cancelled,
                         txn.approvalCount, txn.expiresAt>>)

hasApproved(S, txId, signer) ==
    IF ~_transactionExists(S, txId) THEN Revert("NRM: Transaction does not exist", S)
    ELSE Return(S, S.transactions[txId].approvals[signer])

getApprovalCount(S, txId) ==
    IF ~_transactionExists(S, txId) THEN Revert("NRM: Transaction does not exist", S)
    ELSE Return(S, S.transactions[txId].approvalCount)

isTransactionExpired(S, txId, t) ==
    IF ~_transactionExists(S, txId) THEN Revert("NRM: Transaction does not exist", S)
    ELSE Return(S, t > S.transactions[txId].expiresAt)

transactionExists(S, txId) == Return(S, _transactionExists(S, txId))

\* an eligibility check that does not look at the pause flag
canExecuteTransactionIgnoresPause(S, txId, t) ==
    IF ~_transactionExists(S, txId) THEN Return(S, FALSE)
    ELSE LET txn == S.transactions[txId]
         IN  Return(S, /\ ~txn.executed
                       /\ ~txn.cancelled
                       /\ txn.approvalCount >= S.threshold
                       /\ t <= txn.expiresAt)

canExecuteTransaction(S, txId, t) ==
    IF ~_transactionExists(S, txId) THEN Return(S, FALSE)
    ELSE LET txn == S.transactions[txId]
         IN  Return(S, /\ ~txn.executed
                       /\ ~txn.cancelled
                       /\ txn.approvalCount >= S.threshold
                       /\ t <= txn.expiresAt
                       /\ ~S.paused)

(***************************************************************************)
(* Execution.                                                              *)
(***************************************************************************)
\* The contract's function dispatch for a call from sender with msg.value = value
\* and calldata = data.  No function reached by a payload is payable, so a call
\* with value to any of them reverts with empty return data.
dispatch(S, sender, value, data, t) ==
    IF data = <<>> THEN Return(S, 0)                       \* receive()
    ELSE IF selectorOf(data) \notin
                {"addSigner", "removeSigner", "changeThreshold",
                 "executeBatchTransfer", "executeWithdraw"}
         THEN Revert("NRM: Function not found", S)          \* fallback()
    ELSE IF value > 0 THEN Revert("", S)
    ELSE IF selectorOf(data) = "addSigner"
         THEN addSigner(S, sender, argsOf(data)[1])
    ELSE IF selectorOf(data) = "removeSigner"
         THEN removeSigner(S, sender, argsOf(data)[1])
    ELSE IF selectorOf(data) = "changeThreshold"
         THEN changeThreshold(S, sender, argsOf(data)[1])
    ELSE IF selectorOf(data) = "executeWithdraw"
         THEN executeWithdraw(S, sender, argsOf(data)[1], argsOf(data)[2])
    ELSE executeBatchTransfer(S, sender, decodeArray(argsOf(data), 1),
                              decodeArray(argsOf(data), 2))

\* executeTransaction that leaves the executed mark for after the forwarded call
executeBeginLateMark(S, sender, txId, t) ==
    IF nonReentrant(S) # OK THEN Revert(nonReentrant(S), S)
    ELSE IF notPaused(S) # OK THEN Revert(notPaused(S), S)
    ELSE IF validTransaction(S, txId, t) # OK THEN Revert(validTransaction(S, txId, t), S)
    ELSE IF ~(S.transactions[txId].approvalCount >= S.threshold)
         THEN Revert("NRM: Insufficient approvals", S)
    ELSE Return([S EXCEPT !.status = ENTERED], 0)

\* executeTransaction up to the forwarded call: the modifiers, the quorum check
\* and txn.executed = true
executeBegin(S, sender, txId, t) ==
    IF nonReentrant(S) # OK THEN Revert(nonReentrant(S), S)
    ELSE IF notPaused(S) # OK THEN Revert(notPaused(S), S)
    ELSE IF validTransaction(S, txId, t) # OK THEN Revert(validTransaction(S, txId, t), S)
    ELSE IF ~(S.transactions[txId].approvalCount >= S.threshold)
         THEN Revert("NRM: Insufficient approvals", S)
    ELSE Return([S EXCEPT !.status = ENTERED, !.transactions[txId].executed = TRUE], 0)

\* executeTransaction that reports a failed forwarded call without reverting
executeEndNoRevert(S0, r) ==
    IF r.err # OK
    THEN [err |-> "NRM: Transaction execution failed", ret |-> 0,
          st |-> [r.st EXCEPT !.status = NOT_ENTERED]]
    ELSE Return([r.st EXCEPT !.status = NOT_ENTERED], 0)

\* executeTransaction after the forwarded call came back with result r:
\* S0 is the storage at the start of executeTransaction
executeEnd(S0, r) ==
    IF r.err # OK
    THEN Revert(IF r.err # "" THEN r.err ELSE "NRM: Transaction execution failed", S0)
    ELSE Return([r.st EXCEPT !.status = NOT_ENTERED], 0)   \* _nonReentrantAfter

\* executeTransaction of a transaction whose target is the contract itself;
\* funded: the contract holds txn.value wei
executeTransaction(S, sender, txId, t, funded) ==
    LET b == executeBegin(S, sender, txId, t)
        txn == S.transactions[txId]
    IN  IF b.err # OK THEN b
        ELSE IF txn.value > 0 /\ ~funded THEN executeEnd(S, Revert("", b.st))
        ELSE executeEnd(S, dispatch(b.st, This, txn.value, txn.data, t))

(***************************************************************************)
(* Construction.                                                           *)
(***************************************************************************)
ZeroStorage ==
    [signers |-> <<>>, isSigner |-> [a \in Addr |-> FALSE],
     signerIndex |-> [a \in Addr |-> 0], threshold |-> 0, nonce |-> 0,
     transactions |-> [i \in TxIds |-> EmptyTransaction],
     paused |-> FALSE, pauseVotes |-> 0, pauseVoters |-> [a \in Addr |-> FALSE],
     tokenBalance |-> [a \in Addr |-> IF a = "x" THEN InitialFunds ELSE 0],
     status |-> NOT_ENTERED]

\* the constructor's loop from position i on
RECURSIVE constructorLoop(_, _, _)
constructorLoop(S, _signers, i) ==
    IF i > Len(_signers) THEN Return(S, 0)
    ELSE IF ~(_signers[i] # Null) THEN Revert("NRM: Invalid signer address", S)
    ELSE IF ~(~S.isSigner[_signers[i]]) THEN Revert("NRM: Duplicate signer", S)
    ELSE constructorLoop([S EXCEPT !.signers = Append(@, _signers[i]),
                                   !.isSigner[_signers[i]] = TRUE,
                                   !.signerIndex[_signers[i]] = i - 1],
                         _signers, i + 1)

constructor(_signers, _threshold) ==
    IF ~(Len(_signers) > 0) THEN Revert("NRM: At least one signer required", ZeroStorage)
    ELSE IF ~(_threshold > 0 /\ _threshold <= Len(_signers))
         THEN Revert("NRM: Invalid threshold", ZeroStorage)
    ELSE LET r == constructorLoop(ZeroStorage, _signers, 1)
         IN  IF r.err # OK THEN Revert(r.err, ZeroStorage)
             ELSE Return([r.st EXCEPT !.threshold = _threshold], 0)

(***************************************************************************)
(* Inputs explored.                                                        *)
(***************************************************************************)
DeployedSigners == {<<"x", "y", "z">>}
DeployedThresholds == 0..4

\* (target, value, data) of the generic submissions
Calls == {<<Ext, 0, <<"ping">>>>, <<Ext, 1, <<>>>>, <<Ext, 0, <<>>>>, <<Null, 0, <<"ping">>>>,
          <<This, 1, <<>>>>, <<This, 0, <<"ping">>>>,
          <<This, 0, encodeWithSelector("removeSigner", <<"z">>)>>,
          <<This, 1, encodeWithSelector("removeSigner", <<"z">>)>>}
Amounts == 0..InitialFunds
SignerArgs == {"x", "y", "z", "w", Null}
ThresholdArgs == 0..4
Recipients == {"w", Null}
Batches == {<<<<"w">>, <<1>>>>, <<<<"w", "y">>, <<1, 1>>>>, <<<<"w">>, <<1, 1>>>>,
            <<<<>>, <<>>>>, <<<<Null>>, <<1>>>>, <<<<"w">>, <<0>>>>,
            <<<<"w", "y">>, <<2, 1>>>>}
\* arguments of the privileged functions when they are called from outside
OutsideSigners == {"w", "z"}
OutsideThresholds == {1, 2}
OutsideBatches == {<<<<"w">>, <<1>>>>}

\* who can call: accounts between transactions, the callee during a forwarded call
Senders == IF frame.active THEN {frame.callee} ELSE EOA

(***************************************************************************)
(* The state machine.                                                      *)
(***************************************************************************)
Init ==
    \E _signers \in DeployedSigners, _threshold \in DeployedThresholds :
        LET r == constructor(_signers, _threshold)
        IN  /\ r.err = OK
            /\ signers = r.st.signers
            /\ isSigner = r.st.isSigner
            /\ signerIndex = r.st.signerIndex
            /\ threshold = r.st.threshold
            /\ nonce = r.st.nonce
            /\ transactions = r.st.transactions
            /\ paused = r.st.paused
            /\ pauseVotes = r.st.pauseVotes
            /\ pauseVoters = r.st.pauseVoters
            /\ tokenBalance = r.st.tokenBalance
            /\ status = r.st.status
            /\ now = 0
            /\ frame = NoFrame

\* the storage after a call with result r (a reverted call leaves it as it was)
Commit(r) ==
    /\ signers' = r.st.signers
    /\ isSigner' = r.st.isSigner
    /\ signerIndex' = r.st.signerIndex
    /\ threshold' = r.st.threshold
    /\ nonce' = r.st.nonce
    /\ transactions' = r.st.transactions
    /\ paused' = r.st.paused
    /\ pauseVotes' = r.st.pauseVotes
    /\ pauseVoters' = r.st.pauseVoters
    /\ tokenBalance' = r.st.tokenBalance
    /\ status' = r.st.status

Deposit(sender, amount) ==
    /\ Commit(deposit(Storage, sender, amount))
    /\ UNCHANGED <<now, frame>>

SubmitTransaction(sender, target, value, data) ==
    /\ Commit(submitTransaction(Storage, sender, target, value, data, now))
    /\ UNCHANGED <<now, frame>>

SubmitBatchPayment(sender, recipients, amounts) ==
    /\ Commit(submitBatchPayment(Storage, sender, recipients, amounts, now))
    /\ UNCHANGED <<now, frame>>

SubmitAddSigner(sender, newSigner) ==
    /\ Commit(submitAddSigner(Storage, sender, newSigner, now))
    /\ UNCHANGED <<now, frame>>

SubmitRemoveSigner(sender, signerToRemove) ==
    /\ Commit(submitRemoveSigner(Storage, sender, signerToRemove, now))
    /\ UNCHANGED <<now, frame>>

SubmitChangeThreshold(sender, newThreshold) ==
    /\ Commit(submitChangeThreshold(Storage, sender, newThreshold, now))
    /\ UNCHANGED <<now, frame>>

SubmitWithdraw(sender, recipient, amount) ==
    /\ Commit(submitWithdraw(Storage, sender, recipient, amount, now))
    /\ UNCHANGED <<now, frame>>

ApproveTransaction(sender, txId) ==
    /\ Commit(approveTransaction(Storage, sender, txId, now))
    /\ UNCHANGED <<now, frame>>

RevokeApproval(sender, txId) ==
    /\ Commit(revokeApproval(Storage, sender, txId, now))
    /\ UNCHANGED <<now, frame>>

CancelTransaction(sender, txId) ==
    /\ Commit(cancelTransaction(Storage, sender, txId, now))
    /\ UNCHANGED <<now, frame>>

ExpireTransaction(sender, txId) ==
    /\ Commit(expireTransaction(Storage, sender, txId, now))
    /\ UNCHANGED <<now, frame>>

\* executeTransaction of a self-targeted transaction: one step
ExecuteTransaction(sender, txId, funded) ==
    /\ transactions[txId].target = This \/ executeBegin(Storage, sender, txId, now).err # OK
    /\ Commit(executeTransaction(Storage, sender, txId, now, funded))
    /\ UNCHANGED <<now, frame>>

\* executeTransaction of a transaction to another contract, up to the forwarded call
ExecuteForward(sender, txId) ==
    /\ transactions[txId].target # This
    /\ executeBegin(Storage, sender, txId, now).err = OK
    /\ Commit(executeBegin(Storage, sender, txId, now))
    /\ frame' = [active |-> TRUE, txId |-> txId, sender |-> sender,
                 callee |-> transactions[txId].target, saved |-> Storage]
    /\ UNCHANGED now

\* the forwarded call comes back: with success, or failed with return data e
ForwardedReturn(success, e) ==
    /\ frame.active
    /\ Commit(executeEnd(frame.saved,
                         IF success THEN Return(Storage, 0) ELSE Revert(e, Storage)))
    /\ frame' = NoFrame
    /\ UNCHANGED now

VotePause(sender) ==
    /\ Commit(votePause(Storage, sender))
    /\ UNCHANGED <<now, frame>>

VoteUnpause(sender) ==
    /\ Commit(voteUnpause(Storage, sender))
    /\ UNCHANGED <<now, frame>>

\* the privileged functions called from outside
CallAddSigner(sender, newSigner) ==
    /\ Commit(addSigner(Storage, sender, newSigner))
    /\ UNCHANGED <<now, frame>>

CallRemoveSigner(sender, signerToRemove) ==
    /\ Commit(removeSigner(Storage, sender, signerToRemove))
    /\ UNCHANGED <<now, frame>>

CallChangeThreshold(sender, newThreshold) ==
    /\ Commit(changeThreshold(Storage, sender, newThreshold))
    /\ UNCHANGED <<now, frame>>

CallExecuteBatchTransfer(sender, recipients, amounts) ==
    /\ Commit(executeBatchTransfer(Storage, sender, recipients, amounts))
    /\ UNCHANGED <<now, frame>>

CallExecuteWithdraw(sender, recipient, amount) ==
    /\ Commit(executeWithdraw(Storage, sender, recipient, amount))
    /\ UNCHANGED <<now, frame>>

\* block.timestamp advances between transactions
Tick(d) ==
    /\ ~frame.active
    /\ \/ d = TRANSACTION_EXPIRY /\ now < TRANSACTION_EXPIRY
       \/ d = 1 /\ now >= TRANSACTION_EXPIRY /\ now < TRANSACTION_EXPIRY + MaxSlack
    /\ now' = now + d
    /\ UNCHANGED <<signers, isSigner, signerIndex, threshold, nonce, transactions,
                   paused, pauseVotes, pauseVoters, tokenBalance, status, frame>>

\* ids called with: the ids that can exist and one that never does
Ids == 0..MaxTx

Next ==
    \/ \E s \in Senders, a \in Amounts : Deposit(s, a)
    \/ \E s \in Senders, c \in Calls :
          nonce < MaxTx /\ SubmitTransaction(s, c[1], c[2], c[3])
    \/ \E s \in Senders, b \in Batches :
          nonce < MaxTx /\ SubmitBatchPayment(s, b[1], b[2])
    \/ \E s \in Senders, a \in SignerArgs : nonce < MaxTx /\ SubmitAddSigner(s, a)
    \/ \E s \in Senders, a \in SignerArgs : nonce < MaxTx /\ SubmitRemoveSigner(s, a)
    \/ \E s \in Senders, n \in ThresholdArgs : nonce < MaxTx /\ SubmitChangeThreshold(s, n)
    \/ \E s \in Senders, rc \in Recipients, a \in Amounts :
          nonce < MaxTx /\ SubmitWithdraw(s, rc, a)
    \/ \E s \in Senders, i \in Ids : ApproveTransaction(s, i)
    \/ \E s \in Senders, i \in Ids : RevokeApproval(s, i)
    \/ \E s \in Senders, i \in Ids : CancelTransaction(s, i)
    \/ \E s \in Senders, i \in Ids : ExpireTransaction(s, i)
    \/ \E s \in Senders, i \in Ids, f \in BOOLEAN : ExecuteTransaction(s, i, f)
    \/ \E s \in Senders, i \in Ids : ExecuteForward(s, i)
    \/ \E ok \in BOOLEAN, e \in {"", "CalleeError"} : ForwardedReturn(ok, e)
    \/ \E s \in Senders : VotePause(s)
    \/ \E s \in Senders : VoteUnpause(s)
    \/ \E s \in Senders, a \in OutsideSigners : CallAddSigner(s, a)
    \/ \E s \in Senders, a \in OutsideSigners : CallRemoveSigner(s, a)
    \/ \E s \in Senders, n \in OutsideThresholds : CallChangeThreshold(s, n)
    \/ \E s \in Senders, b \in OutsideBatches : CallExecuteBatchTransfer(s, b[1], b[2])
    \/ \E s \in Senders, a \in {1} : CallExecuteWithdraw(s, "w", a)
    \/ \E d \in {1, TRANSACTION_EXPIRY} : Tick(d)

Spec == Init /\ [][Next]_vars

(***************************************************************************)
(* Signer governance: two proposals in flight, the signer set and the      *)
(* threshold changed by executing them.                                    *)
(***************************************************************************)
GovCalls == {<<This, 0, encodeWithSelector("removeSigner", <<"z">>)>>,
             <<This, 0, encodeWithSelector("changeThreshold", <<3>>)>>}
GovSigners == {"x", "y", "z", "w"}
GovThresholds == 1..3

GovIds == 0..MaxGovTx

NextGov ==
    \/ \E s \in Senders, c \in GovCalls :
          nonce < MaxGovTx /\ SubmitTransaction(s, c[1], c[2], c[3])
    \/ \E s \in Senders, a \in GovSigners : nonce < MaxGovTx /\ SubmitAddSigner(s, a)
    \/ \E s \in Senders, a \in GovSigners : nonce < MaxGovTx /\ SubmitRemoveSigner(s, a)
    \/ \E s \in Senders, n \in GovThresholds :
          nonce < MaxGovTx /\ SubmitChangeThreshold(s, n)
    \/ \E s \in Senders, i \in GovIds : ApproveTransaction(s, i)
    \/ \E s \in Senders, i \in GovIds : RevokeApproval(s, i)
    \/ \E s \in Senders, i \in GovIds, f \in {TRUE} : ExecuteTransaction(s, i, f)

SpecGov == Init /\ [][NextGov]_vars

(***************************************************************************)
(* Pause votes while the signer set changes: signers are added and         *)
(* removed through proposals while votes are outstanding.                  *)
(***************************************************************************)
PauseIds == 0..(MaxPauseTx - 1)

NextPause ==
    \/ \E s \in Senders : VotePause(s)
    \/ \E s \in Senders : VoteUnpause(s)
    \/ \E s \in Senders, a \in {"w"} :
          nonce < MaxPauseTx /\ SubmitAddSigner(s, a)
    \/ \E s \in Senders, a \in GovSigners :
          nonce < MaxPauseTx /\ SubmitRemoveSigner(s, a)
    \/ \E s \in Senders, i \in PauseIds : ApproveTransaction(s, i)
    \/ \E s \in Senders, i \in PauseIds, f \in {TRUE} : ExecuteTransaction(s, i, f)

SpecPause == Init /\ [][NextPause]_vars

(***************************************************************************)
(* Cancellation with a known submitter: every transaction is submitted by  *)
(* one signer, the others approve, revoke and cancel.                      *)
(***************************************************************************)
Submitter == "x"

NextCancel ==
    \/ \E c \in Calls :
          nonce < MaxTx /\ SubmitTransaction(Submitter, c[1], c[2], c[3])
    \/ \E s \in Senders, i \in Ids : ApproveTransaction(s, i)
    \/ \E s \in Senders, i \in Ids : RevokeApproval(s, i)
    \/ \E s \in Senders, i \in Ids : CancelTransaction(s, i)
    \/ \E d \in {1, TRANSACTION_EXPIRY} : Tick(d)

SpecCancel == Init /\ [][NextCancel]_vars

(***************************************************************************)
(* Reentrancy: the contract is deployed with another contract among its    *)
(* signers; that contract is the target of the transactions and calls back *)
(* into the multisig, as a signer, while the forwarded call is in flight.  *)
(***************************************************************************)
ReentrySigners == {<<"x", "y", Ext>>}
ReentryThresholds == 1..2
ReentryIds == 0..(MaxReentryTx - 1)

InitReentry ==
    \E _signers \in ReentrySigners, _threshold \in ReentryThresholds :
        LET r == constructor(_signers, _threshold)
        IN  /\ r.err = OK
            /\ signers = r.st.signers
            /\ isSigner = r.st.isSigner
            /\ signerIndex = r.st.signerIndex
            /\ threshold = r.st.threshold
            /\ nonce = r.st.nonce
            /\ transactions = r.st.transactions
            /\ paused = r.st.paused
            /\ pauseVotes = r.st.pauseVotes
            /\ pauseVoters = r.st.pauseVoters
            /\ tokenBalance = r.st.tokenBalance
            /\ status = r.st.status
            /\ now = 0
            /\ frame = NoFrame

NextReentry ==
    \/ \E s \in Senders :
          nonce < MaxReentryTx /\ SubmitTransaction(s, Ext, 0, <<"ping">>)
    \/ \E s \in Senders, i \in ReentryIds : ApproveTransaction(s, i)
    \/ \E s \in Senders, i \in ReentryIds : RevokeApproval(s, i)
    \/ \E s \in Senders, i \in ReentryIds : CancelTransaction(s, i)
    \/ \E s \in Senders, i \in ReentryIds : ExpireTransaction(s, i)
    \/ \E s \in Senders, i \in ReentryIds, f \in {TRUE} : ExecuteTransaction(s, i, f)
    \/ \E s \in Senders, i \in ReentryIds : ExecuteForward(s, i)
    \/ \E ok \in BOOLEAN, e \in {"", "CalleeError"} : ForwardedReturn(ok, e)
    \/ \E s \in Senders, a \in {1} : Deposit(s, a)
    \/ \E s \in Senders, b \in OutsideBatches : CallExecuteBatchTransfer(s, b[1], b[2])

SpecReentry == InitReentry /\ [][NextReentry]_vars

\* Lifting a pause: signers vote, one signer proposes additions and removals,
\* and the signers who voted to pause call voteUnpause whenever it can
\* succeed.
NextPauseLive ==
    \/ \E s \in Senders : VotePause(s)
    \/ \E s \in Senders : VoteUnpause(s)
    \/ \E s \in {Submitter}, a \in {"w"} :
          nonce < MaxPauseTx /\ SubmitAddSigner(s, a)
    \/ \E s \in {Submitter}, a \in GovSigners :
          nonce < MaxPauseTx /\ SubmitRemoveSigner(s, a)
    \/ \E s \in Senders, i \in PauseIds, f \in {TRUE} : ExecuteTransaction(s, i, f)

SpecPauseLive ==
    /\ Init
    /\ [][NextPauseLive]_vars
    /\ WF_vars(\E s \in Senders : VoteUnpause(s))

(***************************************************************************)
(* Staleness: transactions are submitted while their expiry lies within    *)
(* the clock explored, the clock advances and expireTransaction is called  *)
(* whenever it can succeed; signers vote to pause and are removed on the   *)
(* way.                                                                    *)
(***************************************************************************)
NextLive ==
    \/ \E s \in Senders, c \in GovCalls :
          /\ nonce < MaxTx
          /\ now + TRANSACTION_EXPIRY < TRANSACTION_EXPIRY + MaxSlack
          /\ SubmitTransaction(s, c[1], c[2], c[3])
    \/ \E s \in Senders, i \in Ids : ApproveTransaction(s, i)
    \/ \E s \in Senders, i \in Ids : RevokeApproval(s, i)
    \/ \E s \in Senders, i \in Ids : CancelTransaction(s, i)
    \/ \E s \in Senders, i \in Ids : ExpireTransaction(s, i)
    \/ \E s \in Senders, i \in Ids, f \in {TRUE} : ExecuteTransaction(s, i, f)
    \/ \E s \in Senders : VotePause(s)
    \/ \E s \in Senders : VoteUnpause(s)
    \/ \E d \in {1, TRANSACTION_EXPIRY} : Tick(d)

\* block.timestamp keeps advancing, and someone calls expireTransaction on a
\* transaction it can succeed on
SpecLive ==
    /\ Init
    /\ [][NextLive]_vars
    /\ WF_vars(\E d \in {1, TRANSACTION_EXPIRY} : Tick(d))
    /\ WF_vars(\E s \in Senders, i \in Ids : ExpireTransaction(s, i))

(***************************************************************************)
(* Properties.                                                             *)
(***************************************************************************)
Callers == EOA \cup {Ext}
Existing == {i \in TxIds : i < nonce}
Finalized(i) == transactions[i].executed \/ transactions[i].cancelled

\* the conditions the specification gives for an execution
Eligible(i) ==
    /\ transactions[i].approvalCount >= threshold
    /\ now <= transactions[i].expiresAt
    /\ ~transactions[i].executed
    /\ ~transactions[i].cancelled
    /\ ~paused

\* a step that is executeTransaction(i) by some caller
ExecuteStep(i) ==
    \/ \E s \in Senders, f \in BOOLEAN : ExecuteTransaction(s, i, f)
    \/ \E s \in Senders : ExecuteForward(s, i)

\* C1: a transaction's executed flag goes from false to true only in an
\* executeTransaction step on it, taken where the transaction exists, has
\* approvalCount >= threshold, is not cancelled, is not expired and the contract
\* is not paused; no other operation sets it.
C1_ExecutedOnlyByExecute ==
    [][\A i \in TxIds :
          (~transactions[i].executed /\ transactions'[i].executed)
              => /\ i < nonce
                 /\ transactions[i].approvalCount >= threshold
                 /\ ~transactions[i].cancelled
                 /\ now <= transactions[i].expiresAt
                 /\ ~paused
                 /\ ExecuteStep(i)]_vars

\* C1 witness: a transaction submitted with threshold 1 was executed.
C1_Witness ==
    \E i \in Existing :
        /\ transactions[i].executed
        /\ threshold = 1
        /\ transactions[i].approvalCount = 1
        /\ ~frame.active

\* the forwarded call of transaction i, made on storage S1 with the contract
\* holding the value (funded) or not
ForwardedSelf(S1, i, funded) ==
    IF transactions[i].value > 0 /\ ~funded THEN Revert("", S1)
    ELSE dispatch(S1, This, transactions[i].value, transactions[i].data, now)

\* C2 as stated: executeTransaction(id) succeeds if and only if approvalCount >=
\* threshold, now <= expiresAt, not executed, not cancelled and not paused.
C2_ExecuteIffEligible ==
    \A i \in Existing, s \in Callers :
        (~frame.active /\ transactions[i].target = This)
            => (executeTransaction(Storage, s, i, now, TRUE).err = OK <=> Eligible(i))

\* C2 amended: an executeTransaction(id) that is not a reentrant call reaches the
\* forwarded call if and only if the transaction exists, approvalCount >=
\* threshold, now <= expiresAt, it is not executed, not cancelled and the
\* contract is not paused; it succeeds if and only if, in addition, the
\* forwarded call succeeds.
C2_ExecuteIffEligibleAndForwarded ==
    \A i \in TxIds, s \in Callers :
        LET b == executeBegin(Storage, s, i, now)
        IN  /\ (b.err = OK) <=> (status = NOT_ENTERED /\ i < nonce /\ Eligible(i))
            /\ \A f \in BOOLEAN :
                  transactions[i].target = This =>
                      (executeTransaction(Storage, s, i, now, f).err = OK
                          <=> (b.err = OK /\ ForwardedSelf(b.st, i, f).err = OK))

\* C2 witness: at now = expiresAt exactly, with threshold = signer count, an
\* eligible transaction can be executed.
C2_Witness ==
    \E i \in Existing :
        /\ now = transactions[i].expiresAt
        /\ threshold = Len(signers)
        /\ Eligible(i)
        /\ transactions[i].target = This
        /\ executeTransaction(Storage, "w", i, now, TRUE).err = OK

\* C3: in every reachable state 1 <= threshold <= len(signers).
C3_ThresholdInRange == 1 <= threshold /\ threshold <= Len(signers)

\* C4: in every reachable state, for every existing transaction,
\* 0 <= approvalCount <= len(signers).
C4_ApprovalCountBounded ==
    \A i \in Existing :
        /\ 0 <= transactions[i].approvalCount
        /\ transactions[i].approvalCount <= Len(signers)

\* the current signers with a true entry in the approval ledger of transaction i
ApprovingSigners(i) == {a \in Addr : isSigner[a] /\ transactions[i].approvals[a]}

\* C5: whenever executeTransaction(id) succeeds, at least threshold addresses
\* that are signers at that moment have approved the transaction.
C5_QuorumOfCurrentSigners ==
    [][\A i \in TxIds :
          (~transactions[i].executed /\ transactions'[i].executed)
              => Cardinality(ApprovingSigners(i)) >= threshold]_vars

\* transaction i is the one whose forwarded call is in flight
InFlight(i) == frame.active /\ frame.txId = i

\* C6: once a transaction is executed or cancelled, no later operation changes
\* any field of its record (the approval ledger included), and approve, revoke,
\* cancel, expire and execute on it all fail.  (The executed mark of a
\* transaction whose forwarded call is still in flight is not yet final.)
C6_FinalizedImmutable ==
    /\ [](\A i \in Existing, s \in Callers :
             Finalized(i) =>
                 /\ approveTransaction(Storage, s, i, now).err # OK
                 /\ revokeApproval(Storage, s, i, now).err # OK
                 /\ cancelTransaction(Storage, s, i, now).err # OK
                 /\ expireTransaction(Storage, s, i, now).err # OK
                 /\ executeBegin(Storage, s, i, now).err # OK)
    /\ [][\A i \in TxIds :
             (Finalized(i) /\ ~InFlight(i)) => transactions'[i] = transactions[i]]_vars

\* C6 witness: a finalized transaction that holds approvals, after its expiry.
C6_Witness ==
    \E i \in Existing :
        /\ Finalized(i)
        /\ ~frame.active
        /\ transactions[i].approvalCount >= 2
        /\ now > transactions[i].expiresAt

\* C7: addSigner, removeSigner, changeThreshold, executeBatchTransfer and
\* executeWithdraw called by anyone but the contract itself fail and change
\* nothing; the signer set, the membership and index maps and the threshold
\* change only in a successful executeTransaction of a self-targeted transaction.
C7_PrivilegedOnlyViaQuorum ==
    /\ [](\A s \in Callers :
             /\ \A a \in SignerArgs :
                   /\ addSigner(Storage, s, a).err # OK
                   /\ addSigner(Storage, s, a).st = Storage
                   /\ removeSigner(Storage, s, a).err # OK
                   /\ removeSigner(Storage, s, a).st = Storage
             /\ \A n \in ThresholdArgs :
                   /\ changeThreshold(Storage, s, n).err # OK
                   /\ changeThreshold(Storage, s, n).st = Storage
             /\ \A b \in Batches :
                   /\ executeBatchTransfer(Storage, s, b[1], b[2]).err # OK
                   /\ executeBatchTransfer(Storage, s, b[1], b[2]).st = Storage
             /\ \A rc \in Recipients, a \in Amounts :
                   /\ executeWithdraw(Storage, s, rc, a).err # OK
                   /\ executeWithdraw(Storage, s, rc, a).st = Storage)
    /\ [][<<signers, isSigner, signerIndex, threshold>>'
              # <<signers, isSigner, signerIndex, threshold>>
            => \E i \in Existing :
                  /\ transactions[i].target = This
                  /\ ~transactions[i].executed /\ transactions'[i].executed
                  /\ ExecuteStep(i)]_vars

\* C7 witness: the signer set was changed through the quorum path, and the
\* contract holds funds a direct withdrawal or removal would act on.
C7_Witness ==
    /\ isSigner["w"]
    /\ Len(signers) = 4
    /\ tokenBalance[This] > 0
    /\ ~frame.active

\* C8: with 3 signers and threshold 2, after X submits and Y approves,
\* executeTransaction succeeds; from then on the transaction stays executed and
\* every executeTransaction on it fails, with the finalized error when the
\* contract is neither paused nor inside a forwarded call.
C8_ExecutedAtMostOnce ==
    /\ [](\A i \in Existing, s \in Callers, f \in BOOLEAN :
             transactions[i].executed =>
                 /\ executeBegin(Storage, s, i, now).err # OK
                 /\ executeTransaction(Storage, s, i, now, f).err # OK
                 /\ executeTransaction(Storage, s, i, now, f).st = Storage
                 /\ (status = NOT_ENTERED /\ ~paused)
                       => executeBegin(Storage, s, i, now).err = "NRM: Transaction finalized")
    /\ [][\A i \in TxIds :
             (transactions[i].executed /\ ~InFlight(i)) => transactions'[i].executed]_vars

\* C8 witness: 3 signers, threshold 2, the transaction approved by x and y and
\* executed.
C8_Witness ==
    \E i \in Existing :
        /\ Len(signers) = 3 /\ threshold = 2
        /\ transactions[i].executed
        /\ transactions[i].approvalCount = 2
        /\ transactions[i].approvals["x"] /\ transactions[i].approvals["y"]
        /\ ~frame.active

\* C9: when the forwarded call of executeTransaction(id) fails, the whole call
\* fails and the storage is what it was before the call (executed false,
\* approvals, signer set, threshold, balances and the reentrancy latch
\* unchanged), and a later executeTransaction(id) passes the checks again.
C9_FailedForwardRollsBack ==
    /\ [](\A i \in Existing, s \in Callers, f \in BOOLEAN :
             LET r == executeTransaction(Storage, s, i, now, f)
             IN  (transactions[i].target = This /\ r.err # OK) => r.st = Storage)
    /\ [][(\E e \in {"", "CalleeError"} : ForwardedReturn(FALSE, e))
            => /\ Storage' = frame.saved
               /\ ~transactions'[frame.txId].executed
               /\ status' = NOT_ENTERED
               /\ executeBegin(Storage', frame.sender, frame.txId, now').err = OK]_vars

\* C9 witness: a forwarded call is in flight, the transaction marked executed
\* and the latch held, while neither was so before the call.
C9_Witness ==
    /\ frame.active
    /\ transactions[frame.txId].executed
    /\ ~frame.saved.transactions[frame.txId].executed
    /\ status = ENTERED /\ frame.saved.status = NOT_ENTERED

\* the transaction i was created by submitBatchPayment
IsBatchPayment(i) ==
    /\ transactions[i].target = This
    /\ transactions[i].data # <<>>
    /\ selectorOf(transactions[i].data) = "executeBatchTransfer"

\* C10: a batch payment that is not finalized, not expired and has
\* approvalCount >= threshold is executed by executeTransaction when the
\* contract is not paused and the pooled balance covers the sum of the amounts.
C10_BatchPaymentExecutes ==
    \A i \in Existing, s \in Callers :
        (/\ IsBatchPayment(i)
         /\ Eligible(i)
         /\ ~frame.active
         /\ tokenBalance[This] >=
                SumSeq(decodeArray(argsOf(transactions[i].data), 2)))
            => executeTransaction(Storage, s, i, now, TRUE).err = OK

\* batches handed to executeBatchTransfer: of equal lengths and not empty,
\* some with a null recipient, a zero amount or amounts above the pooled balance
BatchArgs ==
    {<<<<"w">>, <<1>>>>, <<<<"w", "y">>, <<1, 1>>>>, <<<<"w", "y">>, <<2, 1>>>>,
     <<<<"w", Null>>, <<1, 1>>>>, <<<<"w", "y">>, <<1, 0>>>>, <<<<"w">>, <<3>>>>}

\* some transfer of the batch fails on storage S: a null recipient, a zero
\* amount, or the pooled balance is used up by the transfers before it
BatchFails(S, recipients, amounts) ==
    \E k \in 1..Len(recipients) :
        \/ recipients[k] = Null
        \/ amounts[k] = 0
        \/ SumSeq(SubSeq(amounts, 1, k)) > S.tokenBalance[This]

\* the recipients and the amounts of the batch payment i
BatchOf(i) ==
    <<decodeArray(argsOf(transactions[i].data), 1),
      decodeArray(argsOf(transactions[i].data), 2)>>

C12_PausedRejectsAll ==
    paused =>
        \A s \in Callers :
            /\ \A a \in Amounts : deposit(Storage, s, a).err # OK
            /\ \A c \in Calls : submitTransaction(Storage, s, c[1], c[2], c[3], now).err # OK
            /\ \A b \in Batches : submitBatchPayment(Storage, s, b[1], b[2], now).err # OK
            /\ \A a \in SignerArgs :
                  /\ submitAddSigner(Storage, s, a, now).err # OK
                  /\ submitRemoveSigner(Storage, s, a, now).err # OK
            /\ \A n \in ThresholdArgs : submitChangeThreshold(Storage, s, n, now).err # OK
            /\ \A rc \in Recipients, a \in Amounts :
                  submitWithdraw(Storage, s, rc, a, now).err # OK
            /\ \A i \in TxIds :
                  /\ approveTransaction(Storage, s, i, now).err # OK
                  /\ revokeApproval(Storage, s, i, now).err # OK
                  /\ cancelTransaction(Storage, s, i, now).err # OK
                  /\ expireTransaction(Storage, s, i, now).err # OK
                  /\ executeBegin(Storage, s, i, now).err # OK
            /\ votePause(Storage, s).err # OK

\* the pause majority of the claims: floor(len(signers) / 2) + 1
Majority == (Len(signers) \div 2) + 1

\* C13: votePause by a signer who has not voted, while the contract is not
\* paused, sets the caller's vote flag, adds one to pauseVotes and sets paused
\* exactly when the new pauseVotes >= floor(len(signers)/2) + 1, whatever the
\* approval threshold, and changes nothing else; when the contract is already
\* paused, the caller has already voted or the caller is not a signer, it fails
\* and changes nothing.
C13_VotePause ==
    \A s \in Callers :
        LET r == votePause(Storage, s)
        IN  IF isSigner[s] /\ ~paused /\ ~pauseVoters[s]
            THEN /\ r.err = OK
                 /\ r.st = [Storage EXCEPT !.pauseVoters[s] = TRUE,
                                           !.pauseVotes = pauseVotes + 1,
                                           !.paused = (pauseVotes + 1 >= Majority)]
            ELSE /\ r.err # OK
                 /\ r.st = Storage

\* C13 witness: with 3 signers and threshold 3 the contract is paused by the
\* second vote.
C13_Witness ==
    /\ Len(signers) = 3
    /\ threshold = 3
    /\ paused
    /\ pauseVotes = 2
    /\ Cardinality({a \in Addr : pauseVoters[a]}) = 2

\* C14: voteUnpause succeeds only when the contract is paused and the caller is
\* a signer whose vote flag is true.  It clears the caller's flag and takes one
\* from pauseVotes; when the new pauseVotes is below floor(len(signers)/2) + 1
\* it sets paused = false, pauseVotes = 0 and the vote flag of every signer
\* false; otherwise paused stays true and no other flag changes.  Every other
\* call fails and changes nothing.
C14_VoteUnpause ==
    \A s \in Callers :
        LET r == voteUnpause(Storage, s)
        IN  IF paused /\ isSigner[s] /\ pauseVoters[s]
            THEN /\ r.err = OK
                 /\ IF pauseVotes - 1 < Majority
                    THEN r.st = [Storage EXCEPT
                                    !.paused = FALSE,
                                    !.pauseVotes = 0,
                                    !.pauseVoters = [a \in Addr |->
                                        IF isSigner[a] THEN FALSE ELSE pauseVoters[a]]]
                    ELSE r.st = [Storage EXCEPT !.pauseVoters[s] = FALSE,
                                                !.pauseVotes = pauseVotes - 1]
            ELSE /\ r.err # OK
                 /\ r.st = Storage

\* C14 witness: the contract is paused with more votes than the majority (a
\* signer was removed while votes were outstanding), so that one voteUnpause
\* leaves it paused with the other votes standing.
C14_Witness ==
    /\ paused
    /\ pauseVotes - 1 >= Majority
    /\ \E s \in EOA :
          /\ voteUnpause(Storage, s).err = OK
          /\ voteUnpause(Storage, s).st.paused
          /\ voteUnpause(Storage, s).st.pauseVotes = pauseVotes - 1

\* the addresses whose pause vote flag is true
PauseVoters == {a \in Addr : pauseVoters[a]}

\* C15: in every reachable state pauseVotes is the number of addresses whose
\* pause vote flag is true, and each of them is a current signer, whatever the
\* interleaving of votePause, voteUnpause, the vote reset, addSigner and
\* removeSigner.
C15_PauseVotesCounted ==
    /\ pauseVotes = Cardinality(PauseVoters)
    /\ \A a \in PauseVoters : isSigner[a]

\* C15 witness: votes are outstanding, one of them by a signer added after
\* deployment, after a signer was removed.
C15_Witness ==
    /\ pauseVoters["w"]
    /\ pauseVotes >= 2
    /\ \E i \in Existing :
          /\ transactions[i].executed
          /\ selectorOf(transactions[i].data) = "removeSigner"
    /\ ~frame.active

\* signer lists handed to the constructor, some with a null or a repeated address
ConstructorArgs ==
    {<<>>, <<"x">>, <<"x", "y", "z">>, <<"x", "x">>, <<"x", Null>>, <<"y", "x", "y">>}

\* the signer sequence of storage S is not empty, holds no address twice and no
\* null address, the membership map is true exactly on it, and the index map
\* gives each signer its (0-based) position
SignersWellFormed(S) ==
    /\ Len(S.signers) >= 1
    /\ \A i, j \in 1..Len(S.signers) : S.signers[i] = S.signers[j] => i = j
    /\ \A i \in 1..Len(S.signers) : S.signers[i] # Null
    /\ \A a \in Addr : S.isSigner[a] <=> \E i \in 1..Len(S.signers) : S.signers[i] = a
    /\ \A i \in 1..Len(S.signers) : S.signerIndex[S.signers[i]] = i - 1

\* C16: in every reachable state the signer sequence is non-empty, has no
\* duplicates and no null address, isSigner is true exactly for the addresses
\* of the sequence and signerIndex[signers[i]] = i for every position; every
\* successful constructor call establishes this and addSigner and removeSigner
\* preserve it, whichever position is removed.
C16_SignerSetWellFormed ==
    /\ SignersWellFormed(Storage)
    /\ \A q \in ConstructorArgs, n \in DeployedThresholds :
          constructor(q, n).err = OK => SignersWellFormed(constructor(q, n).st)
    /\ \A a \in SignerArgs :
          /\ addSigner(Storage, This, a).err = OK
                => SignersWellFormed(addSigner(Storage, This, a).st)
          /\ removeSigner(Storage, This, a).err = OK
                => SignersWellFormed(removeSigner(Storage, This, a).st)

\* C16 witness: the signer at the first position was removed and the last
\* signer moved into its place.
C16_Witness ==
    /\ ~isSigner["x"]
    /\ Len(signers) = 2
    /\ signers[1] = "z"
    /\ signerIndex["z"] = 0
    /\ ~frame.active

\* how many positions of the sequence q hold the address a
Occurrences(q, a) == Cardinality({i \in 1..Len(q) : q[i] = a})

\* C17: a successful removeSigner(s) makes the signer sequence exactly one
\* shorter, leaves every other signer in it exactly once, clears s's
\* membership and index entries, and, when s had voted to pause, takes one
\* from pauseVotes and clears s's vote flag; otherwise pauseVotes is unchanged.
C17_RemoveSignerEffect ==
    \A a \in SignerArgs :
        LET r == removeSigner(Storage, This, a)
        IN  r.err = OK =>
                /\ Len(r.st.signers) = Len(signers) - 1
                /\ Occurrences(r.st.signers, a) = 0
                /\ \A b \in Addr \ {a} :
                      /\ Occurrences(r.st.signers, b) = Occurrences(signers, b)
                      /\ isSigner[b] => Occurrences(r.st.signers, b) = 1
                      /\ r.st.isSigner[b] = isSigner[b]
                /\ ~r.st.isSigner[a]
                /\ r.st.signerIndex[a] = 0
                /\ ~r.st.pauseVoters[a]
                /\ r.st.pauseVotes = IF pauseVoters[a] THEN pauseVotes - 1 ELSE pauseVotes
                /\ \A b \in Addr \ {a} : r.st.pauseVoters[b] = pauseVoters[b]

\* C17 witness: a proposal to remove a signer who has voted to pause, and who
\* is not at the last position, has its quorum.
C17_Witness ==
    \E i \in Existing :
        /\ Eligible(i)
        /\ ~frame.active
        /\ selectorOf(transactions[i].data) = "removeSigner"
        /\ LET a == argsOf(transactions[i].data)[1]
           IN  /\ isSigner[a]
               /\ pauseVoters[a]
               /\ signers[Len(signers)] # a
               /\ executeTransaction(Storage, "x", i, now, TRUE).err = OK
               /\ executeTransaction(Storage, "x", i, now, TRUE).st.pauseVotes
                      = pauseVotes - 1

\* C18: in every reachable state, for every existing transaction, approvalCount
\* is the number of addresses whose entry in the transaction's approval ledger
\* is true, whatever the interleaving of submit, approve, revoke, cancel,
\* expire, execute and changes of the signer set.
C18_ApprovalCountMatchesLedger ==
    \A i \in Existing :
        transactions[i].approvalCount
            = Cardinality({a \in Addr : transactions[i].approvals[a]})

\* C18 witness: a transaction that is still open holds no approval, its
\* submitter's included, after revocations.
C18_Witness ==
    \E i \in Existing :
        /\ ~Finalized(i)
        /\ transactions[i].approvalCount = 0
        /\ \A a \in Addr : ~transactions[i].approvals[a]

\* C19: expiry is evaluated lazily against expiresAt = submittedAt + 30 days.
\* For a transaction that is not finalized: up to now = expiresAt exactly,
\* approveTransaction, revokeApproval and executeTransaction pass the expiry
\* test (a signer's approve succeeds unless already approved, a signer's revoke
\* succeeds if approved, execute passes its checks if the quorum is there); at
\* any now > expiresAt all three fail and change nothing, with the expired
\* error for a caller who passes the checks made before it, even when
\* approvalCount >= threshold.
C19_LazyExpiry ==
    \A i \in Existing :
        /\ transactions[i].expiresAt = transactions[i].submittedAt + 30 * 86400
        /\ ~Finalized(i) =>
              \A s \in Callers :
                  LET a == approveTransaction(Storage, s, i, now)
                      v == revokeApproval(Storage, s, i, now)
                      b == executeBegin(Storage, s, i, now)
                  IN  IF now <= transactions[i].expiresAt
                      THEN /\ (isSigner[s] /\ ~paused) =>
                                 /\ a.err = OK <=> ~transactions[i].approvals[s]
                                 /\ v.err = OK <=> transactions[i].approvals[s]
                           /\ (status = NOT_ENTERED /\ ~paused) =>
                                 (b.err = OK <=> transactions[i].approvalCount >= threshold)
                      ELSE /\ a.err # OK /\ a.st = Storage
                           /\ v.err # OK /\ v.st = Storage
                           /\ b.err # OK
                           /\ \A f \in BOOLEAN :
                                 /\ executeTransaction(Storage, s, i, now, f).err # OK
                                 /\ executeTransaction(Storage, s, i, now, f).st = Storage
                           /\ (isSigner[s] /\ ~paused) =>
                                 /\ a.err = "NRM: Transaction expired"
                                 /\ v.err = "NRM: Transaction expired"
                           /\ (status = NOT_ENTERED /\ ~paused) =>
                                 b.err = "NRM: Transaction expired"

\* C19 witness: one second after expiresAt a transaction that is not finalized
\* holds its quorum, and execute fails with the expired error.
C19_Witness ==
    \E i \in Existing :
        /\ now = transactions[i].submittedAt + 30 * 86400 + 1
        /\ ~Finalized(i)
        /\ ~paused
        /\ ~frame.active
        /\ threshold = 2
        /\ transactions[i].approvalCount >= threshold
        /\ executeBegin(Storage, "w", i, now).err = "NRM: Transaction expired"

\* C20: expireTransaction(id) succeeds for any caller, signer or not, exactly
\* when the transaction exists, is neither executed nor cancelled, and
\* now > expiresAt; it then sets cancelled = true and changes nothing else.  In
\* every other case (now <= expiresAt, already finalized, unknown id) it fails
\* and leaves the state unchanged.
C20_ExpireTransaction ==
    \A i \in TxIds, s \in Callers :
        LET r == expireTransaction(Storage, s, i, now)
        IN  IF /\ i < nonce
               /\ ~transactions[i].executed
               /\ ~transactions[i].cancelled
               /\ now > transactions[i].expiresAt
            THEN /\ r.err = OK
                 /\ r.st = [Storage EXCEPT !.transactions[i].cancelled = TRUE]
            ELSE /\ r.err # OK
                 /\ r.st = Storage

\* C20 witness: a stale transaction that holds approvals is open to expiry by
\* an address that is not a signer, and not to a signer's approval.
C20_Witness ==
    \E i \in Existing :
        /\ now > transactions[i].expiresAt
        /\ ~Finalized(i)
        /\ transactions[i].approvalCount >= 1
        /\ ~isSigner["w"]
        /\ expireTransaction(Storage, "w", i, now).err = OK
        /\ expireTransaction(Storage, "w", i, now).st.transactions[i].cancelled
        /\ approveTransaction(Storage, "y", i, now).err # OK

C22_OnlySubmitterCancels ==
    \A i \in Existing, s \in Callers :
        (/\ now <= transactions[i].expiresAt
         /\ cancelTransaction(Storage, s, i, now).err = OK)
            => s = Submitter

\* C23: a submitTransaction(target, value, payload) by a signer while the
\* contract is not paused, with a non-null target and a payload or a value,
\* succeeds, returns the previous nonce as id, adds exactly one to nonce and
\* leaves at that id a record with the given target, value and payload,
\* executed = cancelled = false, expiresAt = now + 30 days, approvalCount = 1
\* and a ledger in which exactly the submitter is approved, every other record
\* and everything else unchanged; a call by a non-signer, with a null target,
\* or with an empty payload and value zero, fails and changes nothing.
C23_SubmitTransaction ==
    \A s \in Callers, c \in Calls :
        LET r == submitTransaction(Storage, s, c[1], c[2], c[3], now)
            rec == [target |-> c[1], value |-> c[2], data |-> c[3],
                    executed |-> FALSE, cancelled |-> FALSE, approvalCount |-> 1,
                    submittedAt |-> now, expiresAt |-> now + 30 * 86400,
                    approvals |-> [a \in Addr |-> a = s]]
        IN  /\ (isSigner[s] /\ ~paused /\ c[1] # Null /\ ~(c[3] = <<>> /\ c[2] = 0)) =>
                  /\ r.err = OK
                  /\ r.ret = nonce
                  /\ r.st.nonce = nonce + 1
                  /\ r.st.transactions[nonce] = rec
                  /\ \A j \in TxIds \ {nonce} : r.st.transactions[j] = transactions[j]
                  /\ r.st = [Storage EXCEPT !.nonce = nonce + 1,
                                            !.transactions[nonce] = rec]
            /\ (~isSigner[s] \/ c[1] = Null \/ (c[3] = <<>> /\ c[2] = 0)) =>
                  /\ r.err # OK
                  /\ r.st = Storage
            /\ r.err # OK => r.st = Storage

\* C23 witness: y submitted a call to the external contract 30 days after
\* deployment; the record holds y's approval only.
C23_Witness ==
    /\ nonce = 1
    /\ transactions[0].target = Ext
    /\ transactions[0].submittedAt = 30 * 86400
    /\ transactions[0].expiresAt = 60 * 86400
    /\ transactions[0].approvalCount = 1
    /\ \A a \in Addr : transactions[0].approvals[a] <=> a = "y"
    /\ now = transactions[0].submittedAt

\* a batch of 101 payments of one unit
OversizeBatch == <<[k \in 1..101 |-> "w"], [k \in 1..101 |-> 1]>>

\* batches handed to submitBatchPayment
SubmitBatchArgs == Batches \cup {OversizeBatch, <<<<"w", "y">>, <<1, 2>>>>}

\* the batch is one submitBatchPayment has to refuse on storage S
BatchRefused(S, recipients, amounts) ==
    \/ Len(recipients) # Len(amounts)
    \/ Len(recipients) = 0
    \/ Len(recipients) > 100
    \/ \E k \in 1..Len(recipients) : recipients[k] = Null
    \/ \E k \in 1..Len(amounts) : amounts[k] = 0
    \/ S.tokenBalance[This] < SumSeq(amounts)

\* C24: submitBatchPayment fails with no record created (nonce, every record
\* and every balance unchanged) whenever the two arrays differ in length, the
\* batch is empty or has more than 100 entries, a recipient is null, an amount
\* is zero, or the pooled balance is smaller than the sum of the amounts; a
\* signer's batch with none of these defects is accepted while not paused.
C24_SubmitBatchRejected ==
    \A s \in Callers, b \in SubmitBatchArgs :
        LET r == submitBatchPayment(Storage, s, b[1], b[2], now)
        IN  /\ BatchRefused(Storage, b[1], b[2]) =>
                  /\ r.err # OK
                  /\ r.st.nonce = nonce
                  /\ r.st.transactions = transactions
                  /\ r.st.tokenBalance = tokenBalance
                  /\ r.st = Storage
            /\ (isSigner[s] /\ ~paused /\ ~BatchRefused(Storage, b[1], b[2])) => r.err = OK

\* C24 witness: with a pooled balance of 2, payments of 1 and 2 are refused for
\* insufficient balance and a payment of 1 and 1 is accepted.
C24_Witness ==
    /\ tokenBalance[This] = 2
    /\ nonce = 0
    /\ ~paused
    /\ submitBatchPayment(Storage, "x", <<"w", "y">>, <<1, 2>>, now).err
           = "NRM: Insufficient balance"
    /\ submitBatchPayment(Storage, "x", <<"w", "y">>, <<1, 1>>, now).err = OK
    /\ submitBatchPayment(Storage, "x", OversizeBatch[1], OversizeBatch[2], now).err
           = "NRM: Invalid batch size"

\* transaction i can be approved and revoked: it exists, is not finalized and
\* not expired, and the contract is not paused
Open(i) ==
    /\ i < nonce
    /\ ~Finalized(i)
    /\ now <= transactions[i].expiresAt
    /\ ~paused

\* C25: approveTransaction(id) by a signer on an existing transaction that is
\* not finalized and not expired, while not paused, fails with the
\* already-approved error and no effect when the caller's ledger entry is
\* true; otherwise it sets the caller's entry to true and adds exactly one to
\* approvalCount, and changes no other entry and no other transaction.
C25_ApproveTransaction ==
    \A i \in Existing, s \in Callers :
        LET r == approveTransaction(Storage, s, i, now)
        IN  (Open(i) /\ isSigner[s]) =>
                IF transactions[i].approvals[s]
                THEN /\ r.err = "NRM: Already approved"
                     /\ r.st = Storage
                ELSE /\ r.err = OK
                     /\ r.st.transactions[i].approvals[s]
                     /\ r.st.transactions[i].approvalCount
                            = transactions[i].approvalCount + 1
                     /\ \A a \in Addr \ {s} :
                           r.st.transactions[i].approvals[a] = transactions[i].approvals[a]
                     /\ \A j \in TxIds \ {i} : r.st.transactions[j] = transactions[j]
                     /\ r.st = [Storage EXCEPT
                                   !.transactions[i].approvals[s] = TRUE,
                                   !.transactions[i].approvalCount = @ + 1]

\* C25 witness: of two open transactions, y has approved the second and not the
\* first.
C25_Witness ==
    /\ nonce = 2
    /\ Open(0) /\ Open(1)
    /\ isSigner["y"]
    /\ ~transactions[0].approvals["y"]
    /\ transactions[1].approvals["y"]
    /\ transactions[1].approvalCount = 2
    /\ approveTransaction(Storage, "y", 1, now).err = "NRM: Already approved"
    /\ approveTransaction(Storage, "y", 0, now).err = OK

\* C26: revokeApproval(id) by a signer on an existing transaction that is not
\* finalized and not expired, while not paused, fails with the not-approved
\* error and no effect when the caller's ledger entry is false; otherwise it
\* clears the caller's entry and takes exactly one from approvalCount and
\* changes nothing else.  An approval followed by a revocation by the same
\* signer gives back the storage as it was.
C26_RevokeApproval ==
    \A i \in Existing, s \in Callers :
        LET r == revokeApproval(Storage, s, i, now)
            a == approveTransaction(Storage, s, i, now)
        IN  (Open(i) /\ isSigner[s]) =>
                IF ~transactions[i].approvals[s]
                THEN /\ r.err = "NRM: Not previously approved"
                     /\ r.st = Storage
                     /\ a.err = OK
                     /\ revokeApproval(a.st, s, i, now).err = OK
                     /\ revokeApproval(a.st, s, i, now).st = Storage
                ELSE /\ r.err = OK
                     /\ r.st = [Storage EXCEPT
                                   !.transactions[i].approvals[s] = FALSE,
                                   !.transactions[i].approvalCount =
                                       transactions[i].approvalCount - 1]

\* C26 witness: a transaction holds exactly its quorum, and a revocation by one
\* of its approvers takes it below the quorum.
C26_Witness ==
    \E i \in Existing :
        /\ Open(i)
        /\ threshold = 2
        /\ transactions[i].approvalCount = threshold
        /\ isSigner["y"] /\ transactions[i].approvals["y"]
        /\ revokeApproval(Storage, "y", i, now).err = OK
        /\ revokeApproval(Storage, "y", i, now).st.transactions[i].approvalCount < threshold

\* C27: removing a signer leaves the approvalCount and the approval ledger of
\* every transaction unchanged.  An approval given by a signer who is later
\* removed still counts for approvalCount >= threshold when the transaction is
\* executed, and the removed address can no longer revoke it.
C27_RemovalKeepsApprovals ==
    /\ \A a \in SignerArgs :
          removeSigner(Storage, This, a).err = OK
              => removeSigner(Storage, This, a).st.transactions = transactions
    /\ \A i \in Existing, s \in Callers :
          LET r == executeTransaction(Storage, s, i, now, TRUE)
          IN  (/\ transactions[i].target = This
               /\ selectorOf(transactions[i].data) = "removeSigner"
               /\ r.err = OK)
                  => /\ r.st.transactions[i].approvals = transactions[i].approvals
                     /\ r.st.transactions[i].approvalCount = transactions[i].approvalCount
                     /\ \A j \in TxIds \ {i} : r.st.transactions[j] = transactions[j]
    /\ \A i \in Existing, s \in Callers :
          ~isSigner[s] =>
              /\ revokeApproval(Storage, s, i, now).err # OK
              /\ revokeApproval(Storage, s, i, now).st = Storage
    /\ \A i \in Existing, s \in Callers :
          (status = NOT_ENTERED /\ Eligible(i)) => executeBegin(Storage, s, i, now).err = OK

\* C27 witness: z was removed after approving an open transaction; the
\* transaction reaches its quorum only with z's approval, passes the checks of
\* executeTransaction, and z cannot revoke.
C27_Witness ==
    \E i \in Existing :
        /\ ~isSigner["z"]
        /\ Open(i)
        /\ ~frame.active
        /\ transactions[i].approvals["z"]
        /\ transactions[i].approvalCount >= threshold
        /\ Cardinality(ApprovingSigners(i)) < threshold
        /\ executeBegin(Storage, "x", i, now).err = OK
        /\ revokeApproval(Storage, "z", i, now).err = "NRM: Not authorized signer"

\* the error of the reentrancy latch
LatchError == "ReentrancyGuardReentrantCall"

\* C28: while a forwarded call of executeTransaction is in flight, every nested
\* call of executeTransaction (for any id), executeBatchTransfer or deposit, by
\* any caller, is rejected by the reentrancy latch and changes nothing; the
\* same holds on the storage executeTransaction hands to any forwarded call.
\* The latch is not held in any state between top-level operations, after a
\* successful execution as after a failed one.
C28_ReentrancyLatch ==
    /\ frame.active <=> status = ENTERED
    /\ \A i \in TxIds, s \in Callers \cup {This} :
          LET b == executeBegin(Storage, s, i, now)
              inner == IF frame.active THEN Storage ELSE b.st
          IN  (frame.active \/ b.err = OK) =>
                  /\ inner.status = ENTERED
                  /\ \A j \in TxIds, c \in Callers \cup {This} :
                        /\ executeTransaction(inner, c, j, now, TRUE).err = LatchError
                        /\ executeTransaction(inner, c, j, now, TRUE).st = inner
                        /\ \A bt \in BatchArgs :
                              /\ executeBatchTransfer(inner, c, bt[1], bt[2]).err = LatchError
                              /\ executeBatchTransfer(inner, c, bt[1], bt[2]).st = inner
                        /\ \A a \in Amounts :
                              /\ deposit(inner, c, a).err = LatchError
                              /\ deposit(inner, c, a).st = inner
    /\ \A i \in TxIds, s \in Callers, f \in BOOLEAN :
          ~frame.active =>
              executeTransaction(Storage, s, i, now, f).st.status = NOT_ENTERED

\* C28 witness: while the forwarded call of one transaction is in flight, a
\* second transaction holds its quorum and is open; the callee, a signer,
\* calls executeTransaction on it and is stopped by the latch alone.
C28_Witness ==
    /\ frame.active
    /\ isSigner[frame.callee]
    /\ \E j \in Existing :
          /\ j # frame.txId
          /\ validTransaction(Storage, j, now) = OK
          /\ transactions[j].approvalCount >= threshold
          /\ ~paused
          /\ executeBegin(Storage, frame.callee, j, now).err = LatchError

\* the error of a call on a transaction that is executed or cancelled
FinalizedError == "NRM: Transaction finalized"

\* C29 as stated: executed is true from before the forwarded call starts, and
\* during the forwarded call every nested approveTransaction, revokeApproval,
\* cancelTransaction, expireTransaction or executeTransaction on the
\* transaction being executed, by a caller allowed to make the call, fails
\* with the finalized error.
C29_NestedCallsFinalized ==
    frame.active =>
        /\ transactions[frame.txId].executed
        /\ \A s \in Callers :
              (isSigner[s] /\ ~paused) =>
                  /\ approveTransaction(Storage, s, frame.txId, now).err = FinalizedError
                  /\ revokeApproval(Storage, s, frame.txId, now).err = FinalizedError
                  /\ cancelTransaction(Storage, s, frame.txId, now).err = FinalizedError
                  /\ expireTransaction(Storage, s, frame.txId, now).err = FinalizedError
                  /\ executeTransaction(Storage, s, frame.txId, now, TRUE).err
                         = FinalizedError

\* C29 amended: executed is true from before the forwarded call starts.  During
\* the forwarded call every nested approveTransaction, revokeApproval,
\* cancelTransaction, expireTransaction or executeTransaction on the
\* transaction being executed fails and changes nothing: approve, revoke and
\* cancel with the finalized error for a signer while not paused, expire with
\* the finalized error for every caller, and executeTransaction with the error
\* of the reentrancy latch, which is tested first.  No step taken during the
\* forwarded call alters the record.
C29_NestedCallsRejected ==
    /\ [](frame.active =>
             /\ transactions[frame.txId].executed
             /\ ~frame.saved.transactions[frame.txId].executed
             /\ \A s \in Callers :
                   /\ approveTransaction(Storage, s, frame.txId, now).err # OK
                   /\ approveTransaction(Storage, s, frame.txId, now).st = Storage
                   /\ revokeApproval(Storage, s, frame.txId, now).err # OK
                   /\ revokeApproval(Storage, s, frame.txId, now).st = Storage
                   /\ cancelTransaction(Storage, s, frame.txId, now).err # OK
                   /\ cancelTransaction(Storage, s, frame.txId, now).st = Storage
                   /\ expireTransaction(Storage, s, frame.txId, now).err = FinalizedError
                   /\ expireTransaction(Storage, s, frame.txId, now).st = Storage
                   /\ executeTransaction(Storage, s, frame.txId, now, TRUE).err = LatchError
                   /\ executeTransaction(Storage, s, frame.txId, now, TRUE).st = Storage
                   /\ (isSigner[s] /\ ~paused) =>
                         /\ approveTransaction(Storage, s, frame.txId, now).err
                                = FinalizedError
                         /\ revokeApproval(Storage, s, frame.txId, now).err = FinalizedError
                         /\ cancelTransaction(Storage, s, frame.txId, now).err
                                = FinalizedError)
    /\ [][(frame.active /\ frame'.active)
             => /\ frame'.txId = frame.txId
                /\ transactions'[frame.txId] = transactions[frame.txId]]_vars

\* C29 witness: a forwarded call is in flight whose callee is a signer that has
\* not approved the transaction being executed, and that has approved another
\* transaction during the call.
C29_Witness ==
    /\ frame.active
    /\ isSigner[frame.callee]
    /\ ~paused
    /\ ~transactions[frame.txId].approvals[frame.callee]
    /\ \E j \in Existing :
          /\ j # frame.txId
          /\ transactions[j].approvals[frame.callee]
          /\ ~frame.saved.transactions[j].approvals[frame.callee]

\* payloads of signer and threshold changes a transaction can carry
GovPayloads ==
    {encodeWithSelector("addSigner", <<a>>) : a \in SignerArgs}
        \cup {encodeWithSelector("removeSigner", <<a>>) : a \in SignerArgs}
        \cup {encodeWithSelector("changeThreshold", <<n>>) : n \in ThresholdArgs}

\* data is the payload of a signer or threshold change
IsGovCall(data) ==
    /\ data # <<>>
    /\ selectorOf(data) \in {"addSigner", "removeSigner", "changeThreshold"}

\* the change carried by data violates its precondition on storage S: adding
\* a current signer or the null address, removing a non-signer or the only
\* signer, a threshold below 1 or above the number of signers
GovViolates(S, data) ==
    LET arg == argsOf(data)[1]
    IN  \/ selectorOf(data) = "addSigner" /\ (arg = Null \/ S.isSigner[arg])
        \/ selectorOf(data) = "removeSigner" /\ (~S.isSigner[arg] \/ Len(S.signers) = 1)
        \/ selectorOf(data) = "changeThreshold" /\ (arg < 1 \/ arg > Len(S.signers))

\* C30: a signer or threshold change that violates its precondition when it is
\* executed (addSigner of a current signer or of the null address,
\* removeSigner of a non-signer or of the only remaining signer,
\* changeThreshold(n) with n < 1 or n > len(signers), measured on the signer
\* set of that moment) fails, and the executeTransaction that forwards it
\* fails with no state change; a change that meets its precondition is applied.
C30_GovPreconditionsAtExecution ==
    /\ \A p \in GovPayloads :
          LET r == dispatch(Storage, This, 0, p, now)
          IN  /\ GovViolates(Storage, p) <=> r.err # OK
              /\ r.err # OK => r.st = Storage
    /\ \A i \in Existing, s \in Callers :
          LET r == executeTransaction(Storage, s, i, now, TRUE)
          IN  (/\ transactions[i].target = This
               /\ IsGovCall(transactions[i].data)
               /\ GovViolates(Storage, transactions[i].data))
                  => /\ r.err # OK
                     /\ r.st = Storage

\* C30 witness: a proposal to set the threshold to 3, accepted when there were
\* 3 signers, holds its quorum when there are 2, and its execution fails.
C30_Witness ==
    \E i \in Existing :
        /\ transactions[i].data = encodeWithSelector("changeThreshold", <<3>>)
        /\ transactions[i].target = This
        /\ Len(signers) = 2
        /\ Eligible(i)
        /\ ~frame.active
        /\ executeTransaction(Storage, "x", i, now, TRUE).err = "NRM: Invalid threshold"

\* C31: for every existing id canExecuteTransaction(id) returns true exactly
\* when the transaction is not executed, not cancelled, has approvalCount >=
\* threshold, now <= expiresAt and the contract is not paused; it returns false
\* for an id >= nonce; and neither it nor any other read helper changes the
\* state.
C31_CanExecuteTransaction ==
    \A i \in TxIds :
        /\ canExecuteTransaction(Storage, i, now).err = OK
        /\ canExecuteTransaction(Storage, i, now).ret
              = IF i >= nonce THEN FALSE
                ELSE /\ ~transactions[i].executed
                     /\ ~transactions[i].cancelled
                     /\ transactions[i].approvalCount >= threshold
                     /\ now <= transactions[i].expiresAt
                     /\ ~paused
        /\ canExecuteTransaction(Storage, i, now).st = Storage
        /\ getTransactionDetails(Storage, i).st = Storage
        /\ getApprovalCount(Storage, i).st = Storage
        /\ isTransactionExpired(Storage, i, now).st = Storage
        /\ transactionExists(Storage, i).st = Storage
        /\ \A a \in Addr : hasApproved(Storage, i, a).st = Storage
        /\ getSigners(Storage).st = Storage
        /\ getThreshold(Storage).st = Storage
        /\ getBalance(Storage).st = Storage

\* C31 witness: a transaction holds its quorum, is open and not expired, and
\* canExecuteTransaction returns false for it because the contract is paused.
C31_Witness ==
    \E i \in Existing :
        /\ ~Finalized(i)
        /\ transactions[i].approvalCount >= threshold
        /\ now <= transactions[i].expiresAt
        /\ paused
        /\ canExecuteTransaction(Storage, i, now).ret = FALSE
        /\ canExecuteTransaction(Storage, i + 1, now).ret = FALSE

\* the step is the return of a failed forwarded call, which puts back the
\* storage executeTransaction started from
RollbackStep == frame.active /\ ~frame'.active /\ Storage' = frame.saved

\* the fields of a record that are written at creation only
Created(txn) == <<txn.target, txn.value, txn.data, txn.submittedAt, txn.expiresAt>>

\* C32: transactions form an append-only log.  Nonce never decreases and a
\* successful submission adds exactly one to it; a transaction exists exactly
\* when its id < nonce and never stops existing; target, value, payload,
\* submittedAt and expiresAt of an existing transaction never change.  (The
\* return of a failed forwarded call puts back the storage from before the
\* call as a whole.)
C32_AppendOnlyLog ==
    /\ [](\A i \in TxIds :
             /\ _transactionExists(Storage, i) <=> i < nonce
             /\ transactionExists(Storage, i).ret <=> i < nonce
             /\ i >= nonce => transactions[i] = EmptyTransaction)
    /\ [](\A s \in Callers :
             /\ \A c \in Calls :
                   LET r == submitTransaction(Storage, s, c[1], c[2], c[3], now)
                   IN  r.st.nonce = IF r.err = OK THEN nonce + 1 ELSE nonce
             /\ \A b \in Batches :
                   LET r == submitBatchPayment(Storage, s, b[1], b[2], now)
                   IN  r.st.nonce = IF r.err = OK THEN nonce + 1 ELSE nonce
             /\ \A a \in SignerArgs :
                   LET r == submitAddSigner(Storage, s, a, now)
                       v == submitRemoveSigner(Storage, s, a, now)
                   IN  /\ r.st.nonce = IF r.err = OK THEN nonce + 1 ELSE nonce
                       /\ v.st.nonce = IF v.err = OK THEN nonce + 1 ELSE nonce
             /\ \A n \in ThresholdArgs :
                   LET r == submitChangeThreshold(Storage, s, n, now)
                   IN  r.st.nonce = IF r.err = OK THEN nonce + 1 ELSE nonce
             /\ \A rc \in Recipients, a \in Amounts :
                   LET r == submitWithdraw(Storage, s, rc, a, now)
                   IN  r.st.nonce = IF r.err = OK THEN nonce + 1 ELSE nonce)
    /\ [][~RollbackStep =>
             /\ nonce' \in {nonce, nonce + 1}
             /\ \A i \in TxIds :
                   i < nonce => /\ i < nonce'
                                /\ Created(transactions'[i]) = Created(transactions[i])]_vars

\* C32 witness: a transaction cancelled after expiry still exists with the
\* target, payload and times of its submission.
C32_Witness ==
    \E i \in Existing :
        /\ transactions[i].cancelled
        /\ now > transactions[i].expiresAt
        /\ Created(transactions[i])
               = <<Ext, 0, <<"ping">>, 0, 30 * 86400>>
        /\ getTransactionDetails(Storage, i).err = OK

\* C33: in every reachable state no transaction has both executed = true and
\* cancelled = true.
C33_ExecutedCancelledExclusive ==
    \A i \in TxIds : ~(transactions[i].executed /\ transactions[i].cancelled)

\* C33 witness: an executed transaction is past its expiry; cancellation and
\* expiry are refused on it.
C33_Witness ==
    \E i \in Existing :
        /\ transactions[i].executed
        /\ ~frame.active
        /\ ~paused
        /\ now > transactions[i].expiresAt
        /\ transactions[i].approvals["x"] /\ isSigner["x"]
        /\ cancelTransaction(Storage, "x", i, now).err = "NRM: Transaction finalized"
        /\ expireTransaction(Storage, "w", i, now).err = "NRM: Transaction finalized"

\* C34: every call of submitTransaction, submitBatchPayment, submitAddSigner,
\* submitRemoveSigner, submitChangeThreshold, submitWithdraw,
\* approveTransaction, revokeApproval, cancelTransaction, votePause or
\* voteUnpause by an address that is not a current signer is rejected as a
\* whole and leaves the entire state unchanged, and so is every direct call of
\* a privileged function; what is left to a non-signer is deposit,
\* expireTransaction and executeTransaction.
C34_NonSignerRejected ==
    \A s \in Callers :
        ~isSigner[s] =>
            /\ \A c \in Calls :
                  /\ submitTransaction(Storage, s, c[1], c[2], c[3], now).err # OK
                  /\ submitTransaction(Storage, s, c[1], c[2], c[3], now).st = Storage
            /\ \A b \in Batches :
                  /\ submitBatchPayment(Storage, s, b[1], b[2], now).err # OK
                  /\ submitBatchPayment(Storage, s, b[1], b[2], now).st = Storage
                  /\ executeBatchTransfer(Storage, s, b[1], b[2]).err # OK
                  /\ executeBatchTransfer(Storage, s, b[1], b[2]).st = Storage
            /\ \A a \in SignerArgs :
                  /\ submitAddSigner(Storage, s, a, now).err # OK
                  /\ submitAddSigner(Storage, s, a, now).st = Storage
                  /\ submitRemoveSigner(Storage, s, a, now).err # OK
                  /\ submitRemoveSigner(Storage, s, a, now).st = Storage
                  /\ addSigner(Storage, s, a).err # OK
                  /\ addSigner(Storage, s, a).st = Storage
                  /\ removeSigner(Storage, s, a).err # OK
                  /\ removeSigner(Storage, s, a).st = Storage
            /\ \A n \in ThresholdArgs :
                  /\ submitChangeThreshold(Storage, s, n, now).err # OK
                  /\ submitChangeThreshold(Storage, s, n, now).st = Storage
                  /\ changeThreshold(Storage, s, n).err # OK
                  /\ changeThreshold(Storage, s, n).st = Storage
            /\ \A rc \in Recipients, a \in Amounts :
                  /\ submitWithdraw(Storage, s, rc, a, now).err # OK
                  /\ submitWithdraw(Storage, s, rc, a, now).st = Storage
                  /\ executeWithdraw(Storage, s, rc, a).err # OK
                  /\ executeWithdraw(Storage, s, rc, a).st = Storage
            /\ \A i \in TxIds :
                  /\ approveTransaction(Storage, s, i, now).err # OK
                  /\ approveTransaction(Storage, s, i, now).st = Storage
                  /\ revokeApproval(Storage, s, i, now).err # OK
                  /\ revokeApproval(Storage, s, i, now).st = Storage
                  /\ cancelTransaction(Storage, s, i, now).err # OK
                  /\ cancelTransaction(Storage, s, i, now).st = Storage
            /\ votePause(Storage, s).err # OK
            /\ votePause(Storage, s).st = Storage
            /\ voteUnpause(Storage, s).err # OK
            /\ voteUnpause(Storage, s).st = Storage

\* C34 witness: z, removed from the signers by an executed proposal it had
\* approved, can no longer approve, revoke, cancel or vote.
C34_Witness ==
    \E i \in Existing :
        /\ ~isSigner["z"]
        /\ transactions[i].approvals["z"]
        /\ transactions[i].executed
        /\ ~frame.active
        /\ votePause(Storage, "z").err = "NRM: Not authorized signer"
        /\ revokeApproval(Storage, "z", i, now).err = "NRM: Not authorized signer"

\* an approval (approve = TRUE) or a revocation by signer s on transaction i
ApproveOrRevoke(approve, S, s, i) ==
    IF approve THEN approveTransaction(S, s, i, now) ELSE revokeApproval(S, s, i, now)

\* C35: approvals and revocations by different signers on the same transaction
\* commute: for two distinct signers A and B and one approve or revoke
\* operation of each, both enabled, the two orders both succeed and give the
\* same approvalCount and the same approval ledger (the same storage).
C35_ApprovalsCommute ==
    \A i \in Existing, A \in EOA, B \in EOA, ka \in BOOLEAN, kb \in BOOLEAN :
        LET a1 == ApproveOrRevoke(ka, Storage, A, i)
            b1 == ApproveOrRevoke(kb, Storage, B, i)
            ab == ApproveOrRevoke(kb, a1.st, B, i)
            ba == ApproveOrRevoke(ka, b1.st, A, i)
        IN  (A # B /\ a1.err = OK /\ b1.err = OK) =>
                /\ ab.err = OK
                /\ ba.err = OK
                /\ ab.st.transactions[i].approvalCount = ba.st.transactions[i].approvalCount
                /\ ab.st.transactions[i].approvals = ba.st.transactions[i].approvals
                /\ ab.st = ba.st

\* C35 witness: on an open transaction x can revoke and y can approve, and the
\* approval takes the transaction to its quorum.
C35_Witness ==
    \E i \in Existing :
        /\ Open(i)
        /\ threshold = 2
        /\ transactions[i].approvalCount = 1
        /\ revokeApproval(Storage, "x", i, now).err = OK
        /\ approveTransaction(Storage, "y", i, now).err = OK
        /\ approveTransaction(Storage, "z", i, now).err = OK

\* C36: no transaction stays non-final forever once it is stale.  For every
\* existing transaction that is neither executed nor cancelled, once
\* now > expiresAt, expireTransaction succeeds for every caller, whatever the
\* pause flag and the signer set; so with the clock advancing and
\* expireTransaction called where it can succeed, every transaction is
\* eventually executed or cancelled.
C36_StaleEventuallyFinal ==
    /\ [](\A i \in Existing, s \in Callers :
             (~Finalized(i) /\ now > transactions[i].expiresAt)
                 => expireTransaction(Storage, s, i, now).err = OK)
    /\ \A i \in Ids : (i < nonce) ~> (i < nonce /\ Finalized(i))

\* C36 witness: a stale transaction is open while the contract is paused, and
\* an address that is not a signer can expire it.
C36_Witness ==
    \E i \in Existing :
        /\ ~Finalized(i)
        /\ now > transactions[i].expiresAt
        /\ paused
        /\ ~isSigner["w"]
        /\ expireTransaction(Storage, "w", i, now).err = OK

\* C37: in every reachable state paused is true if and only if
\* pauseVotes >= floor(len(signers)/2) + 1; adding or removing a signer while
\* votes are outstanding never leaves the contract unpaused with a majority
\* of pause votes recorded.
C37_PausedIffMajority ==
    paused <=> pauseVotes >= Majority

\* C38: a pause can always be lifted.  In every reachable paused state every
\* address whose pause-vote flag is true is still a signer and its
\* voteUnpause succeeds; so when the pause voters keep calling voteUnpause,
\* paused eventually becomes false with pauseVotes = 0 and every vote flag
\* cleared.
C38_PauseCanBeLifted ==
    /\ [](paused =>
             \A a \in Addr :
                 pauseVoters[a] => /\ isSigner[a]
                                   /\ voteUnpause(Storage, a).err = OK)
    /\ paused ~> (~paused /\ pauseVotes = 0 /\ PauseVoters = {})

\* C38 witness: the contract is paused with more votes than one withdrawal can
\* bring below the majority bound, so several voters have to call voteUnpause.
C38_Witness ==
    /\ paused
    /\ pauseVotes - 1 >= Majority
    /\ \A a \in PauseVoters : voteUnpause(Storage, a).err = OK
    /\ \E a \in PauseVoters : voteUnpause(Storage, a).st.paused

\* transaction i is a call of removeSigner(a) on the contract itself
IsRemoval(i, a) ==
    /\ transactions[i].target = This
    /\ transactions[i].data = encodeWithSelector("removeSigner", <<a>>)

Pooled == tokenBalance[This]

\* a step of submit, approve, revoke, cancel, expire or of a pause vote
BookkeepingStep ==
    \/ \E s \in Senders, c \in Calls : SubmitTransaction(s, c[1], c[2], c[3])
    \/ \E s \in Senders, b \in Batches : SubmitBatchPayment(s, b[1], b[2])
    \/ \E s \in Senders, a \in SignerArgs : SubmitAddSigner(s, a)
    \/ \E s \in Senders, a \in SignerArgs : SubmitRemoveSigner(s, a)
    \/ \E s \in Senders, n \in ThresholdArgs : SubmitChangeThreshold(s, n)
    \/ \E s \in Senders, rc \in Recipients, a \in Amounts : SubmitWithdraw(s, rc, a)
    \/ \E s \in Senders, i \in Ids : ApproveTransaction(s, i)
    \/ \E s \in Senders, i \in Ids : RevokeApproval(s, i)
    \/ \E s \in Senders, i \in Ids : CancelTransaction(s, i)
    \/ \E s \in Senders, i \in Ids : ExpireTransaction(s, i)
    \/ \E s \in Senders : VotePause(s)
    \/ \E s \in Senders : VoteUnpause(s)

\* C40: the pooled token balance never decreases except inside a successful
\* executeTransaction of a transaction that had approvalCount >= threshold;
\* deposit only increases it, and submit, approve, revoke, cancel, expire and
\* the pause votes leave it unchanged.
C40_PooledBalance ==
    [][/\ Pooled' < Pooled =>
            /\ \E i \in Existing :
                  /\ transactions[i].approvalCount >= threshold
                  /\ ~transactions[i].executed
                  /\ transactions'[i].executed
                  /\ ExecuteStep(i)
            /\ ~(\E s \in Senders, a \in Amounts : Deposit(s, a))
       /\ Pooled' # Pooled => ~BookkeepingStep]_vars

\* C40 witness: a withdrawal has been executed and its recipient holds tokens
\* that were deposited into the pool.
C40_Witness ==
    \E i \in Existing :
        /\ transactions[i].executed
        /\ transactions[i].target = This
        /\ transactions[i].data # <<>>
        /\ selectorOf(transactions[i].data) = "executeWithdraw"
        /\ tokenBalance["w"] > 0
        /\ ~frame.active

=============================================================================
